---- MODULE Spec2Model ----
(***************************************************************************)
(* State-machine model of the vostt game engine: the orbit camera          *)
(* controller (game-engine/controls/orbit-controls.ts), the Entity pairing *)
(* of a mesh and a rigid body (game-engine/entity.ts) and the Engine frame *)
(* loop (the two Engine classes of the repository).                        *)
(*                                                                         *)
(* Numbers.  The source computes in IEEE doubles; the model computes in    *)
(* exact fixed point.  Angles and lengths are integers counted in "fine"   *)
(* units; Unit fine units make one coarse unit, PI is PiCoarse coarse      *)
(* units.  Unit is a power of the damping denominator, so that MaxDecay    *)
(* successive damped updates of a coarse input are exact; an operation     *)
(* whose result is not representable exactly is not taken (field inexact). *)
(***************************************************************************)
EXTENDS Integers, Sequences, FiniteSets, TLC

\* ------------------------------------------------------------------ bounds
MaxDecay == 2
PiCoarse == 8
MaxPan == 2
MaxListeners == 2
MaxEntities == 2
SqCap == 10000

\* the number of controller operations the update() specification follows
MaxSteps == 6

\* the number of operations the wheel, key and camera-kind specification follows
PanSteps == 4

\* ------------------------------------------------------- program constants
NONE == -1
ROTATE == 0
DOLLY == 1
PAN == 2
TOUCH_ROTATE == 3
TOUCH_PAN == 4
TOUCH_DOLLY_PAN == 5
TOUCH_DOLLY_ROTATE == 6

STATES == {NONE, ROTATE, DOLLY, PAN, TOUCH_ROTATE, TOUCH_PAN, TOUCH_DOLLY_PAN, TOUCH_DOLLY_ROTATE}

\* three.js MOUSE.ROTATE / DOLLY / PAN and TOUCH.ROTATE / PAN / DOLLY_PAN / DOLLY_ROTATE
MOUSE == [ROTATE |-> 0, DOLLY |-> 1, PAN |-> 2]

TOUCH == [ROTATE |-> 0, PAN |-> 1, DOLLY_PAN |-> 2, DOLLY_ROTATE |-> 3]

\* dampingFactor = 0.05 = 1/DampDen; 1 - dampingFactor = 19/20
DampDen == 20

\* Math.pow(0.95, zoomSpeed): 0.95 = ZoomNum/ZoomDen
ZoomNum == 19
ZoomDen == 20

\* this.EPS = 0.000001, in squared fine units
EPS == 1

\* Number.POSITIVE_INFINITY, larger than every finite value of the model
Infinity == 1000000000

\* tan(fov / 2) for the Engine's fov of 75 degrees, as TanNum/TanDen
TanNum == 3
TanDen == 4

\* keyPanSpeed = 7.0
KeyPanSpeed == 7

\* keys = { LEFT: 37, UP: 38, RIGHT: 39, BOTTOM: 40 }
KeyLeft == 37
KeyUp == 38
KeyRight == 39
KeyBottom == 40

\* ------------------------------------------------------------- fixed point
Unit == DampDen ^ MaxDecay

PI == PiCoarse * Unit

\* fine units per radian (PI / 3.14159...)
RadUnit == (PI * 7) \div 22

Abs(x) == IF x < 0 THEN -x ELSE x

Min(a, b) == IF a < b THEN a ELSE b

Max(a, b) == IF a > b THEN a ELSE b

\* x * x, saturating so that sums of squares stay in TLC's integers
Sq(x) == IF Abs(x) > SqCap THEN SqCap * SqCap ELSE x * x

\* truncating division, as a double division followed by rounding toward zero
Div(x, d) == IF x < 0 THEN -((-x) \div d) ELSE x \div d

\* a value computed from pixels, rounded toward zero to whole coarse units
Quant(x) == Div(x, Unit) * Unit

Divides(d, x) == x % d = 0

RECURSIVE Gcd(_, _)
Gcd(a, b) == IF b = 0 THEN a ELSE Gcd(b, a % b)

\* a scale factor n/d in lowest terms
\* the element of a one-element set.  The({F(v) : v \in {x}}) is F(x) with x
\* computed once, whatever F does with it: statements that run in sequence
\* are written this way
The(S) == CHOOSE v \in S : TRUE

Ratio(n, d) == LET g == Gcd(n, d) IN IF g = 0 THEN [n |-> n, d |-> d] ELSE [n |-> n \div g, d |-> d \div g]

RatioOne == [n |-> 1, d |-> 1]

\* Math.sqrt of a sum of squares, on integers
ISqrt(n) == CHOOSE r \in 0..(n + 1) : r * r <= n /\ (r + 1) * (r + 1) > n

\* ---------------------------------------------------------------- vectors
Vec2(x, y) == [x |-> x, y |-> y]

Vec2Zero == Vec2(0, 0)

\* A camera position: the point at spherical offset (r, th, ph) from the
\* centre c of the pan plane.  A vector holds no winding number and no angle
\* at length zero, so the stored form is canonical.
Vector3(c, r, th, ph) == [c |-> c, r |-> r, th |-> th, ph |-> ph]

Vector3Zero == Vector3(Vec2Zero, 0, 0, 0)

\* Math.atan2 returns an angle in (-PI, PI]
WrapAngle(t) == ((t + PI - 1) % (2 * PI)) - PI + 1

\* Spherical.setFromVector3: radius = length; at length 0 theta = phi = 0,
\* otherwise theta = atan2(x, z), phi = acos(y / radius)
setFromVector3(v) == IF v.r = 0 THEN [radius |-> 0, theta |-> 0, phi |-> 0] ELSE [radius |-> v.r, theta |-> WrapAngle(v.th), phi |-> v.ph]

\* Vector3.setFromSpherical followed by position.copy(target).add(offset)
setFromSpherical(target, s) == IF s.radius = 0 THEN Vector3(target, 0, 0, 0) ELSE Vector3(target, s.radius, WrapAngle(s.theta), s.phi)

\* a makeSafe that leaves phi at the poles
makeSafeAtPole(s) == s

\* Spherical.makeSafe: phi = max(EPS, min(PI - EPS, phi))
makeSafe(s) == [s EXCEPT !.phi = Max(EPS, Min(PI - EPS, s.phi))]

\* Vector3.distanceToSquared: the squared radial and centre displacement plus
\* the squared arcs swept at the smaller radius (chord taken as arc)
Arc(rr, da) == (rr \div RadUnit) * Abs(da) + ((rr % RadUnit) * Abs(da)) \div RadUnit

distanceToSquared(p, q) ==
    LET rr == Min(p.r, q.r)
        dth == IF p.r = 0 \/ q.r = 0 THEN 0 ELSE WrapAngle(p.th - q.th)
        dph == IF p.r = 0 \/ q.r = 0 THEN 0 ELSE p.ph - q.ph
    IN  Sq(p.c.x - q.c.x) + Sq(p.c.y - q.c.y) + Sq(p.r - q.r) + Sq(Arc(rr, dth)) + Sq(Arc(rr, dph))

\* A camera orientation, held as the view direction (th, ph) that lookAt
\* derives from position - target; the identity looks along -z.
Quaternion(th, ph) == [th |-> th, ph |-> ph]

QuaternionIdentity == Quaternion(0, PI \div 2)

\* Object3D.lookAt(target): with position = target the direction is (0, 0, 1)
lookAt(position) == IF position.r = 0 THEN QuaternionIdentity ELSE Quaternion(position.th, position.ph)

\* 8 * (1 - q1.dot(q2)): the squared rotation angle between the two
\* orientations (the source's small-angle reading, cos(x/2) = 1 - x^2/8)
RotationSq(q1, q2) == Sq(WrapAngle(q1.th - q2.th)) + Sq(q1.ph - q2.ph)

\* ------------------------------------------------------- OrbitControls
\* One record holds the fields of an OrbitControls instance, its camera
\* included.  surface and document count the listeners registered on
\* domElement and on the document; disposed records that dispose() was called.
\* Six fields are the outputs of the handler that ran last:
\* dispatched (the events passed to dispatchEvent), ret (what the last
\* update() returned, "none" when update() did not run), entry (what the
\* last update() found when it was called), updates (the number of update()
\* calls), inexact (a result left the
\* fixed-point grid) and threw (the handler raised a TypeError).

\* new PerspectiveCamera / OrthographicCamera: at the origin, identity
\* orientation, zoom 1 (ZoomOne in fixed point)
ZoomOne == (ZoomNum * ZoomDen) * Unit

Camera(kind) == [kind |-> kind, position |-> Vector3Zero, quaternion |-> QuaternionIdentity, zoom |-> ZoomOne, span |-> 2 * Unit]

\* what an observer of 'start' and 'end' has counted once it hears one more
\* event: an 'end' that finds no 'start' open is an orphan
Heard(t, type) ==
    IF ~t.on THEN t
    ELSE IF type = "start" THEN [t EXCEPT !.starts = @ + 1]
    ELSE IF type = "end" THEN [t EXCEPT !.ends = @ + 1, !.orphans = @ + (IF t.ends >= t.starts THEN 1 ELSE 0)]
    ELSE t

dispatchEvent(c, type) == [c EXCEPT !.dispatched = Append(@, type), !.heard = Heard(@, type)]

\* 2 * Math.PI / 60 / 60 * autoRotateSpeed, to the fine unit
getAutoRotationAngle(c) == Div(2 * PI * c.autoRotateSpeed, 60 * 60)

\* a zoom scale of 0.95 whatever zoomSpeed is
getZoomScaleFixed(c) == Ratio(ZoomNum, ZoomDen)

\* Math.pow(0.95, zoomSpeed)
getZoomScale(c) == Ratio(ZoomNum ^ c.zoomSpeed, ZoomDen ^ c.zoomSpeed)

rotateLeft(c, angle) == [c EXCEPT !.sphericalDelta.theta = @ - angle]

rotateUp(c, angle) == [c EXCEPT !.sphericalDelta.phi = @ - angle]

\* the X column of the camera matrix is the x axis of the pan plane
panLeft(c, distance) == [c EXCEPT !.panOffset.x = @ - distance]

\* the pan-up direction is the y axis of the pan plane
panUp(c, distance) == [c EXCEPT !.panOffset.y = @ + distance]

\* a pan that leaves enablePan alone on a camera of another kind
panKeepsFlag(c, deltaX, deltaY) ==
    IF c.camera.kind = "perspective"
    THEN LET targetDistance == Div(c.camera.position.r * TanNum, TanDen)
         IN  panUp(panLeft(c, Quant(Div(2 * deltaX * targetDistance, c.domElement.clientHeight))),
                   Quant(Div(2 * deltaY * targetDistance, c.domElement.clientHeight)))
    ELSE IF c.camera.kind = "orthographic"
    THEN LET zoomMilli == Max(1, Div(c.camera.zoom, Div(ZoomOne, 1000)))
         IN  panUp(panLeft(c, Quant(Div(Div(deltaX * c.camera.span * 1000, zoomMilli), c.domElement.clientWidth))),
                   Quant(Div(Div(deltaY * c.camera.span * 1000, zoomMilli), c.domElement.clientHeight)))
    ELSE c

pan(c, deltaX, deltaY) ==
    IF c.camera.kind = "perspective"
    THEN LET targetDistance == Div(c.camera.position.r * TanNum, TanDen)
         IN  panUp(panLeft(c, Quant(Div(2 * deltaX * targetDistance, c.domElement.clientHeight))),
                   Quant(Div(2 * deltaY * targetDistance, c.domElement.clientHeight)))
    ELSE IF c.camera.kind = "orthographic"
    THEN LET zoomMilli == Max(1, Div(c.camera.zoom, Div(ZoomOne, 1000)))
         IN  panUp(panLeft(c, Quant(Div(Div(deltaX * c.camera.span * 1000, zoomMilli), c.domElement.clientWidth))),
                   Quant(Div(Div(deltaY * c.camera.span * 1000, zoomMilli), c.domElement.clientHeight)))
    ELSE [c EXCEPT !.enablePan = FALSE]

\* camera.zoom * factor, clamped to [minZoom, maxZoom]
zoomTo(c, n, d) ==
    [c EXCEPT !.camera.zoom = Max(c.minZoom, Min(c.maxZoom, (c.camera.zoom * n) \div d)),
              !.zoomChanged = TRUE,
              !.inexact = @ \/ ~Divides(d, c.camera.zoom * n)]

\* a dollyIn that writes the zoom without clamping it
dollyInUnclamped(c, dollyScale) ==
    IF c.camera.kind = "perspective"
    THEN [c EXCEPT !.scale = Ratio(c.scale.n * dollyScale.d, c.scale.d * dollyScale.n)]
    ELSE IF c.camera.kind = "orthographic"
    THEN [c EXCEPT !.camera.zoom = (c.camera.zoom * dollyScale.n) \div dollyScale.d, !.zoomChanged = TRUE,
                   !.inexact = @ \/ ~Divides(dollyScale.d, c.camera.zoom * dollyScale.n)]
    ELSE [c EXCEPT !.enableZoom = FALSE]

dollyIn(c, dollyScale) ==
    IF c.camera.kind = "perspective"
    THEN [c EXCEPT !.scale = Ratio(c.scale.n * dollyScale.d, c.scale.d * dollyScale.n)]
    ELSE IF c.camera.kind = "orthographic"
    THEN zoomTo(c, dollyScale.n, dollyScale.d)
    ELSE [c EXCEPT !.enableZoom = FALSE]

dollyOut(c, dollyScale) ==
    IF c.camera.kind = "perspective"
    THEN [c EXCEPT !.scale = Ratio(c.scale.n * dollyScale.n, c.scale.d * dollyScale.d)]
    ELSE IF c.camera.kind = "orthographic"
    THEN zoomTo(c, dollyScale.d, dollyScale.n)
    ELSE [c EXCEPT !.enableZoom = FALSE]

\* x * dampingFactor and x * (1 - dampingFactor), dampingFactor = c.dampingFactor / DampDen
Damped(x, factor) == (x * factor) \div DampDen

\* a decay by dampingFactor in place of 1 - dampingFactor
DecayedByFactor(x, factor) == (x * factor) \div DampDen

Decayed(x, factor) == (x * (DampDen - factor)) \div DampDen

DampExact(x, factor) == Divides(DampDen, x * factor)

\* the fields update() reads and overwrites, as they are when it is called
Entry(c) ==
    [state |-> c.state, sphericalDelta |-> c.sphericalDelta, panOffset |-> c.panOffset, scale |-> c.scale,
     zoomChanged |-> c.zoomChanged, lastPosition |-> c.lastPosition, lastQuaternion |-> c.lastQuaternion]

NoEntry == [state |-> NONE, sphericalDelta |-> [theta |-> 0, phi |-> 0], panOffset |-> Vec2Zero, scale |-> RatioOne,
            zoomChanged |-> FALSE, lastPosition |-> Vector3Zero, lastQuaternion |-> QuaternionIdentity]

\* an update() that, without damping, applies the accumulators and keeps them
updateKeepsPending(c) ==
    LET position == c.camera.position
        \* offset = position - target, rotated to y-up space, as a Spherical
        s0 == setFromVector3(position)
        c1 == IF c.autoRotate /\ c.state = NONE THEN rotateLeft(c, getAutoRotationAngle(c)) ELSE c
        sd == c1.sphericalDelta
        theta1 == IF c1.enableDamping THEN s0.theta + Damped(sd.theta, c1.dampingFactor) ELSE s0.theta + sd.theta
        phi1 == IF c1.enableDamping THEN s0.phi + Damped(sd.phi, c1.dampingFactor) ELSE s0.phi + sd.phi
        theta2 == Max(c1.minAzimuthAngle, Min(c1.maxAzimuthAngle, theta1))
        phi2 == Max(c1.minPolarAngle, Min(c1.maxPolarAngle, phi1))
        s1 == makeSafe([radius |-> s0.radius, theta |-> theta2, phi |-> phi2])
        radius1 == (s1.radius * c1.scale.n) \div c1.scale.d
        radius2 == Max(c1.minDistance, Min(c1.maxDistance, radius1))
        s2 == [s1 EXCEPT !.radius = radius2]
        target1 == IF c1.enableDamping
                   THEN Vec2(c1.target.x + Damped(c1.panOffset.x, c1.dampingFactor), c1.target.y + Damped(c1.panOffset.y, c1.dampingFactor))
                   ELSE Vec2(c1.target.x + c1.panOffset.x, c1.target.y + c1.panOffset.y)
        position1 == setFromSpherical(target1, s2)
        quaternion1 == lookAt(position1)
        sd1 == IF c1.enableDamping
               THEN [theta |-> Decayed(sd.theta, c1.dampingFactor), phi |-> Decayed(sd.phi, c1.dampingFactor)]
               ELSE sd
        panOffset1 == IF c1.enableDamping
                      THEN Vec2(Decayed(c1.panOffset.x, c1.dampingFactor), Decayed(c1.panOffset.y, c1.dampingFactor))
                      ELSE c1.panOffset
        exact == /\ Divides(c1.scale.d, s1.radius * c1.scale.n)
                 /\ c1.enableDamping => /\ DampExact(sd.theta, c1.dampingFactor)
                                        /\ DampExact(sd.phi, c1.dampingFactor)
                                        /\ DampExact(c1.panOffset.x, c1.dampingFactor)
                                        /\ DampExact(c1.panOffset.y, c1.dampingFactor)
        c2 == [c1 EXCEPT !.spherical = s2,
                         !.target = target1,
                         !.camera.position = position1,
                         !.camera.quaternion = quaternion1,
                         !.sphericalDelta = sd1,
                         !.panOffset = panOffset1,
                         !.scale = RatioOne,
                         !.entry = Entry(c),
                         !.updates = @ + 1,
                         !.inexact = @ \/ ~exact]
    IN  IF \/ c2.zoomChanged
           \/ distanceToSquared(c2.lastPosition, c2.camera.position) > EPS
           \/ RotationSq(c2.lastQuaternion, c2.camera.quaternion) > EPS
        THEN [dispatchEvent(c2, "change") EXCEPT !.lastPosition = c2.camera.position,
                                                 !.lastQuaternion = c2.camera.quaternion,
                                                 !.zoomChanged = FALSE,
                                                 !.ret = "true"]
        ELSE [c2 EXCEPT !.ret = "false"]

update(c) ==
    LET position == c.camera.position
        \* offset = position - target, rotated to y-up space, as a Spherical
        s0 == setFromVector3(position)
        c1 == IF c.autoRotate /\ c.state = NONE THEN rotateLeft(c, getAutoRotationAngle(c)) ELSE c
        sd == c1.sphericalDelta
        theta1 == IF c1.enableDamping THEN s0.theta + Damped(sd.theta, c1.dampingFactor) ELSE s0.theta + sd.theta
        phi1 == IF c1.enableDamping THEN s0.phi + Damped(sd.phi, c1.dampingFactor) ELSE s0.phi + sd.phi
        theta2 == Max(c1.minAzimuthAngle, Min(c1.maxAzimuthAngle, theta1))
        phi2 == Max(c1.minPolarAngle, Min(c1.maxPolarAngle, phi1))
    IN  The({
        LET radius1 == (s1.radius * c1.scale.n) \div c1.scale.d
            radius2 == Max(c1.minDistance, Min(c1.maxDistance, radius1))
            s2 == [s1 EXCEPT !.radius = radius2]
            target1 == IF c1.enableDamping
                       THEN Vec2(c1.target.x + Damped(c1.panOffset.x, c1.dampingFactor), c1.target.y + Damped(c1.panOffset.y, c1.dampingFactor))
                       ELSE Vec2(c1.target.x + c1.panOffset.x, c1.target.y + c1.panOffset.y)
        IN  The({
            LET quaternion1 == lookAt(position1)
                sd1 == IF c1.enableDamping
                       THEN [theta |-> Decayed(sd.theta, c1.dampingFactor), phi |-> Decayed(sd.phi, c1.dampingFactor)]
                       ELSE [theta |-> 0, phi |-> 0]
                panOffset1 == IF c1.enableDamping
                              THEN Vec2(Decayed(c1.panOffset.x, c1.dampingFactor), Decayed(c1.panOffset.y, c1.dampingFactor))
                              ELSE Vec2Zero
                exact == /\ Divides(c1.scale.d, s1.radius * c1.scale.n)
                         /\ c1.enableDamping => /\ DampExact(sd.theta, c1.dampingFactor)
                                                /\ DampExact(sd.phi, c1.dampingFactor)
                                                /\ DampExact(c1.panOffset.x, c1.dampingFactor)
                                                /\ DampExact(c1.panOffset.y, c1.dampingFactor)
                c2 == [c1 EXCEPT !.spherical = s2,
                                 !.target = target1,
                                 !.camera.position = position1,
                                 !.camera.quaternion = quaternion1,
                                 !.sphericalDelta = sd1,
                                 !.panOffset = panOffset1,
                                 !.scale = RatioOne,
                                 !.entry = Entry(c),
                                 !.updates = @ + 1,
                                 !.inexact = @ \/ ~exact]
            IN  The({
                IF \/ c3.zoomChanged
                   \/ distanceToSquared(c3.lastPosition, c3.camera.position) > EPS
                   \/ RotationSq(c3.lastQuaternion, c3.camera.quaternion) > EPS
                THEN [dispatchEvent(c3, "change") EXCEPT !.lastPosition = c3.camera.position,
                                                         !.lastQuaternion = c3.camera.quaternion,
                                                         !.zoomChanged = FALSE,
                                                         !.ret = "true"]
                ELSE [c3 EXCEPT !.ret = "false"]
                : c3 \in {c2}})
            : position1 \in {setFromSpherical(target1, s2)}})
        : s1 \in {makeSafe([radius |-> s0.radius, theta |-> theta2, phi |-> phi2])}})

saveState(c) == [c EXCEPT !.target0 = c.target, !.position0 = c.camera.position, !.zoom0 = c.camera.zoom]

\* a reset() that leaves the 'change' event to its update()
resetQuiet(c) ==
    LET c1 == [c EXCEPT !.target = c.target0, !.camera.position = c.position0, !.camera.zoom = c.zoom0]
    IN  [update(c1) EXCEPT !.state = NONE]

\* a reset() that leaves the target where it is
resetKeepsTarget(c) ==
    LET c1 == [c EXCEPT !.camera.position = c.position0, !.camera.zoom = c.zoom0]
    IN  [update(dispatchEvent(c1, "change")) EXCEPT !.state = NONE]

reset(c) ==
    LET c1 == [c EXCEPT !.target = c.target0, !.camera.position = c.position0, !.camera.zoom = c.zoom0]
    IN  [update(dispatchEvent(c1, "change")) EXCEPT !.state = NONE]

\* the listeners the constructor adds to domElement, each a bound copy of a method
Surface == [type \in {"contextmenu", "mousedown", "wheel", "touchstart", "touchend", "touchmove", "keydown"} |-> 1]

\* the constructor: the field initialisers, the listeners, then update()
OrbitControls(object, domElement) ==
    update([camera |-> object, domElement |-> domElement, document |-> [mousemove |-> 0, mouseup |-> 0],
            enabled |-> TRUE, target |-> Vec2Zero,
            minDistance |-> 0, maxDistance |-> Infinity,
            minZoom |-> 0, maxZoom |-> Infinity,
            minPolarAngle |-> 0, maxPolarAngle |-> PI,
            minAzimuthAngle |-> -Infinity, maxAzimuthAngle |-> Infinity,
            enableDamping |-> FALSE, dampingFactor |-> 1,
            enableZoom |-> TRUE, zoomSpeed |-> 1,
            enableRotate |-> TRUE, rotateSpeed |-> DampDen,
            enablePan |-> TRUE, panSpeed |-> 1, keyPanSpeed |-> KeyPanSpeed,
            autoRotate |-> FALSE, autoRotateSpeed |-> 2,
            enableKeys |-> TRUE,
            mouseButtons |-> [LEFT |-> MOUSE.ROTATE, MIDDLE |-> MOUSE.DOLLY, RIGHT |-> MOUSE.PAN],
            touches |-> [ONE |-> TOUCH.ROTATE, TWO |-> TOUCH.DOLLY_PAN],
            target0 |-> Vec2Zero, position0 |-> object.position, zoom0 |-> object.zoom,
            state |-> NONE,
            spherical |-> [radius |-> 1, theta |-> 0, phi |-> 0],
            sphericalDelta |-> [theta |-> 0, phi |-> 0],
            scale |-> RatioOne, panOffset |-> Vec2Zero, zoomChanged |-> FALSE,
            rotateStart |-> Vec2Zero, panStart |-> Vec2Zero, dollyStart |-> Vec2Zero,
            lastPosition |-> Vector3Zero, lastQuaternion |-> QuaternionIdentity,
            surface |-> Surface, disposed |-> FALSE,
            heard |-> [on |-> FALSE, starts |-> 0, ends |-> 0, orphans |-> 0],
            dispatched |-> << >>, ret |-> "none", entry |-> NoEntry, updates |-> 0, inexact |-> FALSE, threw |-> FALSE])

\* ------------------------------------------------ event callbacks
\* A mouse event is [button, modifier (ctrlKey || metaKey || shiftKey),
\* clientX, clientY]; a wheel event [deltaY]; a key event [keyCode]; a touch
\* event [touches], a sequence of [x |-> pageX, y |-> pageY].  The scratch
\* vectors rotateEnd, rotateDelta, panEnd, ... are not kept.

handleMouseDownRotate(c, event) == [c EXCEPT !.rotateStart = Vec2(event.clientX, event.clientY)]

handleMouseDownDolly(c, event) == [c EXCEPT !.dollyStart = Vec2(event.clientX, event.clientY)]

handleMouseDownPan(c, event) == [c EXCEPT !.panStart = Vec2(event.clientX, event.clientY)]

\* an angle that takes the element's width as the divisor
RotateAngleByWidth(c, pixels) == Div(2 * PI * pixels * c.rotateSpeed, DampDen * c.domElement.clientWidth)

\* 2 * Math.PI * (pixels * rotateSpeed) / clientHeight, rotateSpeed = c.rotateSpeed / DampDen
RotateAngle(c, pixels) == Div(2 * PI * pixels * c.rotateSpeed, DampDen * c.domElement.clientHeight)

\* a rotate step that leaves the reference point where the drag began
rotateToKeepsStart(c, endX, endY) ==
    rotateUp(rotateLeft(c, RotateAngle(c, endX - c.rotateStart.x)), RotateAngle(c, endY - c.rotateStart.y))

\* rotateEnd - rotateStart applied as rotateLeft / rotateUp; rotateStart = rotateEnd
rotateTo(c, endX, endY) ==
    LET c1 == rotateLeft(c, RotateAngle(c, endX - c.rotateStart.x))
        c2 == rotateUp(c1, RotateAngle(c, endY - c.rotateStart.y))
    IN  [c2 EXCEPT !.rotateStart = Vec2(endX, endY)]

\* (panEnd - panStart) * panSpeed applied as pan(); panStart = panEnd
panTo(c, endX, endY) ==
    [pan(c, (endX - c.panStart.x) * c.panSpeed, (endY - c.panStart.y) * c.panSpeed) EXCEPT !.panStart = Vec2(endX, endY)]

handleMouseMoveRotate(c, event) == update(rotateTo(c, event.clientX, event.clientY))

handleMouseMoveDolly(c, event) ==
    LET dollyDeltaY == event.clientY - c.dollyStart.y
        c1 == IF dollyDeltaY > 0 THEN dollyIn(c, getZoomScale(c))
              ELSE IF dollyDeltaY < 0 THEN dollyOut(c, getZoomScale(c))
              ELSE c
    IN  update([c1 EXCEPT !.dollyStart = Vec2(event.clientX, event.clientY)])

handleMouseMovePan(c, event) == update(panTo(c, event.clientX, event.clientY))

handleMouseWheel(c, event) ==
    update(IF event.deltaY < 0 THEN dollyOut(c, getZoomScale(c))
           ELSE IF event.deltaY > 0 THEN dollyIn(c, getZoomScale(c))
           ELSE c)

handleKeyDown(c, event) ==
    IF event.keyCode = KeyUp THEN update(pan(c, 0, c.keyPanSpeed))
    ELSE IF event.keyCode = KeyBottom THEN update(pan(c, 0, -c.keyPanSpeed))
    ELSE IF event.keyCode = KeyLeft THEN update(pan(c, c.keyPanSpeed, 0))
    ELSE IF event.keyCode = KeyRight THEN update(pan(c, -c.keyPanSpeed, 0))
    ELSE c

\* touches[0] for one touch, else the midpoint of touches[0] and touches[1]
TouchPoint(event) ==
    IF Len(event.touches) = 1 THEN event.touches[1]
    ELSE Vec2(Div(event.touches[1].x + event.touches[2].x, 2), Div(event.touches[1].y + event.touches[2].y, 2))

\* the distance between touches[0] and touches[1]
TouchDistance(event) == ISqrt(Sq(event.touches[1].x - event.touches[2].x) + Sq(event.touches[1].y - event.touches[2].y))

handleTouchStartRotate(c, event) == [c EXCEPT !.rotateStart = TouchPoint(event)]

handleTouchStartPan(c, event) == [c EXCEPT !.panStart = TouchPoint(event)]

\* reads touches[1]: a TypeError when the event carries one touch
handleTouchStartDolly(c, event) ==
    IF Len(event.touches) < 2 THEN [c EXCEPT !.threw = TRUE]
    ELSE [c EXCEPT !.dollyStart = Vec2(0, TouchDistance(event))]

handleTouchStartDollyPan(c, event) ==
    LET c1 == IF c.enableZoom THEN handleTouchStartDolly(c, event) ELSE c
    IN  IF c1.threw THEN c1 ELSE IF c1.enablePan THEN handleTouchStartPan(c1, event) ELSE c1

handleTouchStartDollyRotate(c, event) ==
    LET c1 == IF c.enableZoom THEN handleTouchStartDolly(c, event) ELSE c
    IN  IF c1.threw THEN c1 ELSE IF c1.enableRotate THEN handleTouchStartRotate(c1, event) ELSE c1

handleTouchMoveRotate(c, event) == rotateTo(c, TouchPoint(event).x, TouchPoint(event).y)

handleTouchMovePan(c, event) == panTo(c, TouchPoint(event).x, TouchPoint(event).y)

\* dollyIn(Math.pow(dollyEnd.y / dollyStart.y, zoomSpeed)); a zero span makes
\* the ratio 0, Infinity or NaN, which the fixed point does not hold
handleTouchMoveDolly(c, event) ==
    IF Len(event.touches) < 2 THEN [c EXCEPT !.threw = TRUE]
    ELSE LET distance == TouchDistance(event)
         IN  IF distance = 0 \/ c.dollyStart.y = 0
             THEN [c EXCEPT !.inexact = TRUE, !.dollyStart = Vec2(0, distance)]
             ELSE [dollyIn(c, Ratio(distance ^ c.zoomSpeed, c.dollyStart.y ^ c.zoomSpeed)) EXCEPT !.dollyStart = Vec2(0, distance)]

handleTouchMoveDollyPan(c, event) ==
    LET c1 == IF c.enableZoom THEN handleTouchMoveDolly(c, event) ELSE c
    IN  IF c1.threw THEN c1 ELSE IF c1.enablePan THEN handleTouchMovePan(c1, event) ELSE c1

handleTouchMoveDollyRotate(c, event) ==
    LET c1 == IF c.enableZoom THEN handleTouchMoveDolly(c, event) ELSE c
    IN  IF c1.threw THEN c1 ELSE IF c1.enableRotate THEN handleTouchMoveRotate(c1, event) ELSE c1

\* ------------------------------------------------ event handlers (FSM)
\* A handler's early 'return' is the field returned of the switch's result.
Return(c) == [returned |-> TRUE, c |-> c]

Break(c) == [returned |-> FALSE, c |-> c]

\* one arm of a button's switch: the capability check, handleMouseDown..., the state
mouseDownAs(c, role, event) ==
    IF role = ROTATE
    THEN IF c.enableRotate = FALSE THEN Return(c) ELSE Break([handleMouseDownRotate(c, event) EXCEPT !.state = ROTATE])
    ELSE IF role = DOLLY
    THEN IF c.enableZoom = FALSE THEN Return(c) ELSE Break([handleMouseDownDolly(c, event) EXCEPT !.state = DOLLY])
    ELSE IF c.enablePan = FALSE THEN Return(c) ELSE Break([handleMouseDownPan(c, event) EXCEPT !.state = PAN])

\* switch (this.mouseButtons.<button>); panSwaps: whether the MOUSE.PAN arm
\* of this button tests the modifier keys (it does not for the right button)
mouseButtonSwitch(c, configured, event, panSwaps) ==
    IF configured = MOUSE.ROTATE THEN mouseDownAs(c, IF event.modifier THEN PAN ELSE ROTATE, event)
    ELSE IF configured = MOUSE.DOLLY THEN mouseDownAs(c, DOLLY, event)
    ELSE IF configured = MOUSE.PAN THEN mouseDownAs(c, IF event.modifier /\ panSwaps THEN ROTATE ELSE PAN, event)
    ELSE Break([c EXCEPT !.state = NONE])

onMouseDown(c, event) ==
    IF c.enabled = FALSE THEN c
    ELSE LET r == IF event.button = 0 THEN mouseButtonSwitch(c, c.mouseButtons.LEFT, event, TRUE)
                  ELSE IF event.button = 1 THEN mouseButtonSwitch(c, c.mouseButtons.MIDDLE, event, TRUE)
                  ELSE IF event.button = 2 THEN mouseButtonSwitch(c, c.mouseButtons.RIGHT, event, FALSE)
                  ELSE Break(c)
         IN  IF r.returned THEN r.c
             ELSE IF r.c.state # NONE
             THEN dispatchEvent([r.c EXCEPT !.document.mousemove = @ + 1, !.document.mouseup = @ + 1], "start")
             ELSE r.c

\* an onMouseMove that does not test the capability of the drag
onMouseMoveUngated(c, event) ==
    IF c.enabled = FALSE THEN c
    ELSE IF c.state = ROTATE THEN handleMouseMoveRotate(c, event)
    ELSE IF c.state = DOLLY THEN handleMouseMoveDolly(c, event)
    ELSE IF c.state = PAN THEN handleMouseMovePan(c, event)
    ELSE c

onMouseMove(c, event) ==
    IF c.enabled = FALSE THEN c
    ELSE IF c.state = ROTATE THEN (IF c.enableRotate = FALSE THEN c ELSE handleMouseMoveRotate(c, event))
    ELSE IF c.state = DOLLY THEN (IF c.enableZoom = FALSE THEN c ELSE handleMouseMoveDolly(c, event))
    ELSE IF c.state = PAN THEN (IF c.enablePan = FALSE THEN c ELSE handleMouseMovePan(c, event))
    ELSE c

\* removeEventListener is given this.onMouseMove / this.onMouseUp, which are
\* not the bound functions that were added: nothing is removed
onMouseUp(c, event) ==
    IF c.enabled = FALSE THEN c
    ELSE [dispatchEvent(c, "end") EXCEPT !.state = NONE]

\* an onMouseWheel that does not dispatch 'end'
onMouseWheelNoEnd(c, event) ==
    IF c.enabled = FALSE \/ c.enableZoom = FALSE \/ (c.state # NONE /\ c.state # ROTATE) THEN c
    ELSE handleMouseWheel(dispatchEvent(c, "start"), event)

\* an onMouseWheel that does not test the state
onMouseWheelAnyState(c, event) ==
    IF c.enabled = FALSE \/ c.enableZoom = FALSE THEN c
    ELSE dispatchEvent(handleMouseWheel(dispatchEvent(c, "start"), event), "end")

onMouseWheel(c, event) ==
    IF c.enabled = FALSE \/ c.enableZoom = FALSE \/ (c.state # NONE /\ c.state # ROTATE) THEN c
    ELSE dispatchEvent(handleMouseWheel(dispatchEvent(c, "start"), event), "end")

\* an onKeyDown that does not test enableKeys
onKeyDownAnyKeys(c, event) ==
    IF c.enabled = FALSE \/ c.enablePan = FALSE THEN c
    ELSE handleKeyDown(c, event)

onKeyDown(c, event) ==
    IF c.enabled = FALSE \/ c.enableKeys = FALSE \/ c.enablePan = FALSE THEN c
    ELSE handleKeyDown(c, event)

touchStartSwitch(c, event) ==
    IF Len(event.touches) = 1
    THEN IF c.touches.ONE = TOUCH.ROTATE
         THEN IF c.enableRotate = FALSE THEN Return(c) ELSE Break([handleTouchStartRotate(c, event) EXCEPT !.state = TOUCH_ROTATE])
         ELSE IF c.touches.ONE = TOUCH.PAN
         THEN IF c.enablePan = FALSE THEN Return(c) ELSE Break([handleTouchStartPan(c, event) EXCEPT !.state = TOUCH_PAN])
         ELSE Break([c EXCEPT !.state = NONE])
    ELSE IF Len(event.touches) = 2
    THEN IF c.touches.TWO = TOUCH.DOLLY_PAN
         THEN IF c.enableZoom = FALSE /\ c.enablePan = FALSE THEN Return(c)
              ELSE Break([handleTouchStartDollyPan(c, event) EXCEPT !.state = TOUCH_DOLLY_PAN])
         ELSE IF c.touches.TWO = TOUCH.DOLLY_ROTATE
         THEN IF c.enableZoom = FALSE /\ c.enableRotate = FALSE THEN Return(c)
              ELSE Break([handleTouchStartDollyRotate(c, event) EXCEPT !.state = TOUCH_DOLLY_ROTATE])
         ELSE Break([c EXCEPT !.state = NONE])
    ELSE Break([c EXCEPT !.state = NONE])

onTouchStart(c, event) ==
    IF c.enabled = FALSE THEN c
    ELSE LET r == touchStartSwitch(c, event)
         IN  IF r.returned THEN r.c
             ELSE IF r.c.state # NONE THEN dispatchEvent(r.c, "start")
             ELSE r.c

\* a TypeError raised by the handle... call leaves the handler before update()
updateUnlessThrown(c) == IF c.threw THEN c ELSE update(c)

onTouchMove(c, event) ==
    IF c.enabled = FALSE THEN c
    ELSE IF c.state = TOUCH_ROTATE
    THEN IF c.enableRotate = FALSE THEN c ELSE update(handleTouchMoveRotate(c, event))
    ELSE IF c.state = TOUCH_PAN
    THEN IF c.enablePan = FALSE THEN c ELSE update(handleTouchMovePan(c, event))
    ELSE IF c.state = TOUCH_DOLLY_PAN
    THEN IF c.enableZoom = FALSE /\ c.enablePan = FALSE THEN c ELSE updateUnlessThrown(handleTouchMoveDollyPan(c, event))
    ELSE IF c.state = TOUCH_DOLLY_ROTATE
    THEN IF c.enableZoom = FALSE /\ c.enableRotate = FALSE THEN c ELSE updateUnlessThrown(handleTouchMoveDollyRotate(c, event))
    ELSE [c EXCEPT !.state = NONE]

onTouchEnd(c, event) ==
    IF c.enabled = FALSE THEN c
    ELSE [dispatchEvent(c, "end") EXCEPT !.state = NONE]

\* removeEventListener is given the unbound methods, which are not the bound
\* functions that were added: no listener is removed from domElement or document
dispose(c) == [c EXCEPT !.disposed = TRUE]

\* ------------------------------------------------------------ Entity
\* Positions are integer triples.  Euler angles are counted in quarter
\* turns; a quaternion component is held exactly as [p, q], the number
\* (p + q * sqrt(2)) / 8, which is closed under the products of half-angle
\* sines and cosines of quarter turns.
Surd(p, q) == [p |-> p, q |-> q]

SurdAdd(a, b) == Surd(a.p + b.p, a.q + b.q)

SurdNeg(a) == Surd(-a.p, -a.q)

SurdMul(a, b) == Surd(a.p * b.p + 2 * a.q * b.q, a.p * b.q + a.q * b.p)

\* 2 * Math.cos(k * PI / 4) and 2 * Math.sin(k * PI / 4)
Cos2(k) == LET m == k % 8 IN
    IF m = 0 THEN Surd(2, 0) ELSE IF m = 4 THEN Surd(-2, 0)
    ELSE IF m = 1 \/ m = 7 THEN Surd(0, 1) ELSE IF m = 3 \/ m = 5 THEN Surd(0, -1)
    ELSE Surd(0, 0)

Sin2(k) == Cos2(k - 2)

Quat(x, y, z, w) == [x |-> x, y |-> y, z |-> z, w |-> w]

QuatIdentity == Quat(Surd(0, 0), Surd(0, 0), Surd(0, 0), Surd(8, 0))

Mul3(a, b, c) == SurdMul(SurdMul(a, b), c)

\* three.js Quaternion.setFromEuler for the default order 'XYZ', which
\* Euler.set triggers through its change callback
ThreeSetFromEuler(x, y, z) ==
    LET c1 == Cos2(x)  c2 == Cos2(y)  c3 == Cos2(z)
        s1 == Sin2(x)  s2 == Sin2(y)  s3 == Sin2(z)
    IN  Quat(SurdAdd(Mul3(s1, c2, c3), Mul3(c1, s2, s3)),
             SurdAdd(Mul3(c1, s2, c3), SurdNeg(Mul3(s1, c2, s3))),
             SurdAdd(Mul3(c1, c2, s3), Mul3(s1, s2, c3)),
             SurdAdd(Mul3(c1, c2, c3), SurdNeg(Mul3(s1, s2, s3))))

\* cannon.js Quaternion.setFromEuler(x, y, z) with its default order 'XYZ'
CannonSetFromEuler(x, y, z) ==
    LET c1 == Cos2(x)  c2 == Cos2(y)  c3 == Cos2(z)
        s1 == Sin2(x)  s2 == Sin2(y)  s3 == Sin2(z)
    IN  Quat(SurdAdd(Mul3(s1, c2, c3), Mul3(c1, s2, s3)),
             SurdAdd(Mul3(c1, s2, c3), SurdNeg(Mul3(s1, c2, s3))),
             SurdAdd(Mul3(c1, c2, s3), Mul3(s1, s2, c3)),
             SurdAdd(Mul3(c1, c2, c3), SurdNeg(Mul3(s1, s2, s3))))

Vec3(x, y, z) == [x |-> x, y |-> y, z |-> z]

Vec3Zero == Vec3(0, 0, 0)

\* CubeEntity.createMesh / GroundEntity.createMesh: a new Mesh at the origin;
\* the ground's is turned by mesh.rotateX(-PI / 2)
createMesh(kind) ==
    [position |-> Vec3Zero, quaternion |-> IF kind = "ground" THEN ThreeSetFromEuler(-1, 0, 0) ELSE QuatIdentity]

\* CubeEntity.createRigidBody (mass 100) / GroundEntity.createRigidBody (mass 0,
\* quaternion.setFromEuler(-PI / 2, 0, 0))
createRigidBody(kind) ==
    [position |-> Vec3Zero, velocity |-> Vec3Zero, spin |-> FALSE, mass |-> IF kind = "ground" THEN 0 ELSE 100,
     quaternion |-> IF kind = "ground" THEN CannonSetFromEuler(-1, 0, 0) ELSE QuatIdentity]

\* The engine side of the program as one record g: ent (each Entity's mesh
\* and rigidBody, as indices into meshes and bodies; 0 is undefined), meshes
\* and bodies (every Mesh and Body created), scene and world (the indices
\* added to the Scene and to the World), engine (the Engine's own fields).

\* Entity.initialize
initialize(g, e) ==
    [g EXCEPT !.meshes = Append(@, createMesh(g.ent[e].kind)),
              !.bodies = Append(@, createRigidBody(g.ent[e].kind)),
              !.ent[e].mesh = Len(g.meshes) + 1,
              !.ent[e].rigidBody = Len(g.bodies) + 1]

\* Entity.setPosition; this.mesh undefined raises a TypeError
setPosition(g, e, x, y, z) ==
    IF g.ent[e].mesh = 0 THEN [g EXCEPT !.threw = TRUE]
    ELSE [g EXCEPT !.meshes[g.ent[e].mesh].position = Vec3(x, y, z),
                   !.bodies[g.ent[e].rigidBody].position = Vec3(x, y, z)]

\* a setRotation that turns the mesh and leaves the rigid body as it was
setRotationMeshOnly(g, e, x, y, z) ==
    IF g.ent[e].mesh = 0 THEN [g EXCEPT !.threw = TRUE]
    ELSE [g EXCEPT !.meshes[g.ent[e].mesh].quaternion = ThreeSetFromEuler(x, y, z)]

\* Entity.setRotation
setRotation(g, e, x, y, z) ==
    IF g.ent[e].mesh = 0 THEN [g EXCEPT !.threw = TRUE]
    ELSE [g EXCEPT !.meshes[g.ent[e].mesh].quaternion = ThreeSetFromEuler(x, y, z),
                   !.bodies[g.ent[e].rigidBody].quaternion = CannonSetFromEuler(x, y, z)]

\* Body.applyImpulse(impulse, worldPoint): velocity += impulse / mass; applied
\* off the centre of mass (worldPoint # position) it also sets the body spinning
applyImpulse(g, e, impulse, worldPoint) ==
    IF g.ent[e].rigidBody = 0 THEN [g EXCEPT !.threw = TRUE]
    ELSE LET b == g.bodies[g.ent[e].rigidBody]
         IN  IF b.mass = 0 THEN g
             ELSE [g EXCEPT !.bodies[g.ent[e].rigidBody].velocity =
                       Vec3(b.velocity.x + Div(impulse.x, b.mass), b.velocity.y + Div(impulse.y, b.mass), b.velocity.z + Div(impulse.z, b.mass)),
                            !.bodies[g.ent[e].rigidBody].spin = @ \/ (worldPoint # b.position /\ impulse # Vec3Zero)]

\* an addEntity that does not track an entity it already tracks
addEntityOnce(g, e) ==
    LET g1 == initialize(g, e)
    IN  [g1 EXCEPT !.world.bodies = Append(@, g1.ent[e].rigidBody),
                   !.scene = Append(@, g1.ent[e].mesh),
                   !.engine.entities = IF \E k \in 1..Len(@) : @[k] = e THEN @ ELSE Append(@, e)]

\* Engine.addEntity
addEntity(g, e) ==
    LET g1 == initialize(g, e)
    IN  [g1 EXCEPT !.world.bodies = Append(@, g1.ent[e].rigidBody),
                   !.scene = Append(@, g1.ent[e].mesh),
                   !.engine.entities = Append(@, e)]

\* ------------------------------------------------------------ Engine
\* physicsWorld.step(1 / 60, deltaTime, 10): time is counted in ticks,
\* StepTicks of them to the fixed step of 1/60 s
StepTicks == 2

\* the fixed time step 1 / 60 and the maxSubSteps argument 10
MaxSubSteps == 10

\* the box the bodies are followed in; a frame that would take one out is not taken
MaxCoord == 2

\* the most time the World's accumulator is followed to, in ticks
MaxAccum == 6

\* gravity (0, -9.82, 0), one velocity unit per fixed step
Gravity == 1

InWorld(g, i) == \E k \in 1..Len(g.world.bodies) : g.world.bodies[k] = i

\* whether a static body (the ground plane, at height 0) is in the world
HasGround(g) == \E i \in 1..Len(g.bodies) : InWorld(g, i) /\ g.bodies[i].mass = 0

\* a half turn about the x axis, composed onto q
SpinQuat(q) == Quat(q.w, q.z, SurdNeg(q.y), SurdNeg(q.x))

\* one fixed step of a body: gravity, integration, rest on the ground plane
stepBody(g, b) ==
    IF b.mass = 0 THEN b
    ELSE LET vy == b.velocity.y - Gravity
             y1 == b.position.y + vy
             q1 == IF b.spin THEN SpinQuat(b.quaternion) ELSE b.quaternion
         IN  IF HasGround(g) /\ y1 <= 0
             THEN [b EXCEPT !.position = Vec3(b.position.x + b.velocity.x, 0, b.position.z + b.velocity.z),
                            !.velocity = Vec3Zero, !.spin = FALSE, !.quaternion = q1]
             ELSE [b EXCEPT !.position = Vec3(b.position.x + b.velocity.x, y1, b.position.z + b.velocity.z),
                            !.velocity = Vec3(b.velocity.x, vy, b.velocity.z), !.quaternion = q1]

\* World.internalStep(dt)
internalStep(g) ==
    [g EXCEPT !.bodies = [i \in 1..Len(g.bodies) |-> IF InWorld(g, i) THEN stepBody(g, g.bodies[i]) ELSE g.bodies[i]]]

RECURSIVE internalSteps(_, _)
internalSteps(g, n) == IF n = 0 THEN g ELSE The({internalSteps(g1, n - 1) : g1 \in {internalStep(g)}})

\* a step that empties the accumulator however many fixed steps that takes
stepUncapped(g, timeSinceLastCalled) ==
    IF timeSinceLastCalled = 0
    THEN [internalStep(g) EXCEPT !.world.substeps = 1]
    ELSE LET acc == g.world.accumulator + timeSinceLastCalled
             n == acc \div StepTicks
         IN  [internalSteps(g, n) EXCEPT !.world.accumulator = acc - n * StepTicks, !.world.substeps = n]

\* World.step(dt, timeSinceLastCalled, maxSubSteps): with timeSinceLastCalled
\* = 0 one fixed step; otherwise the accumulator is filled and emptied by at
\* most maxSubSteps fixed steps
step(g, timeSinceLastCalled) ==
    IF timeSinceLastCalled = 0
    THEN [internalStep(g) EXCEPT !.world.substeps = 1]
    ELSE LET acc == g.world.accumulator + timeSinceLastCalled
             n == Min(acc \div StepTicks, MaxSubSteps)
         IN  [internalSteps(g, n) EXCEPT !.world.accumulator = acc - n * StepTicks, !.world.substeps = n]

\* Clock.getDelta(): the first call starts the clock and returns 0
getDelta(g, elapsed) == IF g.engine.clock THEN elapsed ELSE 0

Did(g, what) == [g EXCEPT !.engine.frame = Append(@, what)]

\* for (const entity of this.entities) { mesh.position.set(...); mesh.quaternion.set(...) }
RECURSIVE syncMeshes(_, _)
syncMeshes(g, k) ==
    IF k > Len(g.engine.entities) THEN g
    ELSE LET e == g.engine.entities[k]
             b == g.bodies[g.ent[e].rigidBody]
         IN  syncMeshes([g EXCEPT !.meshes[g.ent[e].mesh].position = Vec3(b.position.x, b.position.y, b.position.z),
                                  !.meshes[g.ent[e].mesh].quaternion = Quat(b.quaternion.x, b.quaternion.y, b.quaternion.z, b.quaternion.w)],
                        k + 1)

\* renderer.render(scene, camera): what is drawn is the scene as it is now
rendererRender(g) == Did([g EXCEPT !.engine.rendered = [meshes |-> g.meshes, bodies |-> g.bodies, camera |-> g.oc.camera]], "render")

\* a frame that asks for two next frames
requestAnimationFrameTwice(g) == Did([g EXCEPT !.engine.requests = @ + 2], "request")

requestAnimationFrame(g) == Did([g EXCEPT !.engine.requests = @ + 1], "request")

cameraControlsUpdate(g) == Did([g EXCEPT !.oc = update(g.oc)], "update")

\* Engine.render of the engine with physics
\* a frame that copies the transforms before it advances the simulation
renderPhysicsSyncFirst(g, elapsed) ==
    LET deltaTime == getDelta(g, elapsed)
        g1 == Did(syncMeshes([g EXCEPT !.engine.clock = TRUE], 1), "sync")
        g2 == Did(step(g1, deltaTime), "step")
        g3 == cameraControlsUpdate(g2)
        g4 == rendererRender(g3)
    IN  requestAnimationFrame(g4)

renderPhysics(g, elapsed) ==
    The({The({The({The({requestAnimationFrame(g4)
        : g4 \in {rendererRender(g3)}})
        : g3 \in {cameraControlsUpdate(g2)}})
        : g2 \in {Did(syncMeshes(g1, 1), "sync")}})
        : g1 \in {Did(step([g EXCEPT !.engine.clock = TRUE], getDelta(g, elapsed)), "step")}})

\* Engine.render of the engine without physics
renderPlain(g) ==
    The({The({rendererRender(g2)
        : g2 \in {cameraControlsUpdate(g1)}})
        : g1 \in {requestAnimationFrame(g)}})

render(g, elapsed) ==
    LET g0 == [g EXCEPT !.engine.frame = << >>, !.engine.frames = 1 - @]
    IN  IF g.engine.physics THEN renderPhysics(g0, elapsed) ELSE renderPlain(g0)

\* Engine.updateSize: renderer.setSize(width, height, false), camera.aspect
updateSize(g, width, height) == [g EXCEPT !.engine.size = [width |-> width, height |-> height]]

\* ============================================================== state
VARIABLES oc, engine, ent, meshes, bodies, world, scene, view, h

vars == <<oc, engine, ent, meshes, bodies, world, scene, view, h>>

engineVars == <<engine, ent, meshes, bodies, world, scene, view>>

\* the two Entity objects the hosting view creates
Entities == {"ground", "cube"}

\* the program's state as one record, for the operators above
G == [oc |-> oc, engine |-> engine, ent |-> ent, meshes |-> meshes, bodies |-> bodies,
      world |-> world, scene |-> scene, view |-> view, threw |-> FALSE]

\* the outputs of the previous handler are cleared when the next one starts
Begin(c) == [c EXCEPT !.dispatched = << >>, !.ret = "none", !.entry = NoEntry, !.updates = 0, !.inexact = FALSE, !.threw = FALSE]

\* the pan plane is followed inside a box of PanBox fine units
PanBox == MaxPan * PiCoarse * Unit

Representable(c) ==
    /\ ~c.inexact
    /\ Abs(c.target.x) <= PanBox /\ Abs(c.target.y) <= PanBox
    /\ c.document.mousemove <= MaxListeners

BodiesInBox(g) ==
    \A i \in 1..Len(g.bodies) :
        /\ Abs(g.bodies[i].position.x) <= MaxCoord /\ Abs(g.bodies[i].position.z) <= MaxCoord
        /\ g.bodies[i].position.y <= MaxCoord /\ g.bodies[i].position.y >= -MaxCoord
        /\ Abs(g.bodies[i].velocity.y) <= MaxCoord

\* the canvas: clientHeight and clientWidth in pixels
DomElement == [clientHeight |-> 2 * PiCoarse, clientWidth |-> 2 * PiCoarse]

\* new Engine(canvas): the camera, the controls and their settings, the world, the clock;
\* size is the renderer's size, frames the parity of the number of frames executed
EngineFields(physics) ==
    [physics |-> physics, entities |-> << >>, clock |-> FALSE, requests |-> 0, started |-> FALSE,
     frames |-> 0, size |-> [width |-> DomElement.clientWidth, height |-> DomElement.clientHeight],
     frame |-> << >>, rendered |-> [meshes |-> << >>, bodies |-> << >>, camera |-> Camera("perspective")]]

\* camera.position.set(...) before the controls are built: at the target, or
\* at distance ZoomNum coarse units, azimuth 0, on the equator
Placed(camera, far) ==
    IF far THEN [camera EXCEPT !.position = Vector3(Vec2Zero, ZoomNum * Unit, 0, PI \div 2)] ELSE camera

\* cameraControls.maxPolarAngle = 1.5
EngineMaxPolarAngle == (PI * 15) \div 32

\* the settings the Engine constructor writes after new OrbitControls(...)
EngineSettings(c) ==
    [c EXCEPT !.enableDamping = TRUE, !.dampingFactor = 1, !.maxPolarAngle = EngineMaxPolarAngle,
              !.mouseButtons = [LEFT |-> -1, MIDDLE |-> MOUSE.PAN, RIGHT |-> MOUSE.ROTATE]]

InitEngineSide(physicsChoices) ==
    /\ engine \in {EngineFields(p) : p \in physicsChoices}
    /\ ent = [e \in Entities |-> [kind |-> e, mesh |-> 0, rigidBody |-> 0]]
    /\ meshes = << >>
    /\ bodies = << >>
    /\ world = [bodies |-> << >>, accumulator |-> 0, substeps |-> 0]
    /\ scene = << >>
    /\ view = [texture |-> "none", observing |-> FALSE, promise |-> "none"]
    /\ h = [op |-> "init", arg |-> << >>, threw |-> FALSE, steps |-> 0]

\* ------------------------------------------------------------ actions
\* a controller handler ran and left the controller as c1
Handled(op, arg, c1) ==
    /\ Representable(c1)
    /\ oc' = c1
    /\ h' = [op |-> op, arg |-> arg, threw |-> c1.threw, steps |-> Min(h.steps + 1, MaxSteps)]
    /\ UNCHANGED engineVars

\* every listener registered for the event runs, in turn
RECURSIVE onMouseMoveAll(_, _, _)
onMouseMoveAll(c, event, n) == IF n = 0 THEN c ELSE onMouseMoveAll(onMouseMove(c, event), event, n - 1)

RECURSIVE onMouseUpAll(_, _, _)
onMouseUpAll(c, event, n) == IF n = 0 THEN c ELSE onMouseUpAll(onMouseUp(c, event), event, n - 1)

MouseDown(event) ==
    /\ oc.surface.mousedown > 0
    /\ Handled("mousedown", event, onMouseDown(Begin(oc), event))

MouseMove(event) ==
    /\ oc.document.mousemove > 0
    /\ Handled("mousemove", event, onMouseMoveAll(Begin(oc), event, oc.document.mousemove))

MouseUp(event) ==
    /\ oc.document.mouseup > 0
    /\ Handled("mouseup", event, onMouseUpAll(Begin(oc), event, oc.document.mouseup))

MouseWheel(event) ==
    /\ oc.surface.wheel > 0
    /\ Handled("wheel", event, onMouseWheel(Begin(oc), event))

KeyDown(event) ==
    /\ oc.surface.keydown > 0
    /\ Handled("keydown", event, onKeyDown(Begin(oc), event))

TouchStart(event) ==
    /\ oc.surface.touchstart > 0
    /\ Handled("touchstart", event, onTouchStart(Begin(oc), event))

TouchMove(event) ==
    /\ oc.surface.touchmove > 0
    /\ Handled("touchmove", event, onTouchMove(Begin(oc), event))

TouchEnd(event) ==
    /\ oc.surface.touchend > 0
    /\ Handled("touchend", event, onTouchEnd(Begin(oc), event))

\* controls.update() called by the owner of the controls
Update == Handled("update", << >>, update(Begin(oc)))

SaveState == Handled("saveState", << >>, saveState(Begin(oc)))

Reset == Handled("reset", << >>, reset(Begin(oc)))

Dispose == Handled("dispose", << >>, dispose(Begin(oc)))

\* the owner writes one of the public boolean fields
Flags == {"enabled", "enableRotate", "enableZoom", "enablePan", "enableKeys", "enableDamping", "autoRotate"}

SetFlag(flag, value) ==
    /\ oc[flag] # value
    /\ Handled("set", <<flag, value>>, [Begin(oc) EXCEPT ![flag] = value])

\* an engine-side operation ran and left the program as g1
Commit(op, arg, g1) ==
    \E g2 \in {g1} :
        /\ Representable(g2.oc)
        /\ BodiesInBox(g2)
        /\ g2.world.accumulator <= MaxAccum
        /\ oc' = g2.oc
        /\ engine' = g2.engine
        /\ ent' = g2.ent
        /\ meshes' = g2.meshes
        /\ bodies' = g2.bodies
        /\ world' = g2.world
        /\ scene' = g2.scene
        /\ view' = g2.view
        /\ h' = [op |-> op, arg |-> arg, threw |-> g2.threw, steps |-> 0]

AddEntity(e) ==
    /\ Len(engine.entities) < MaxEntities
    /\ Commit("addEntity", e, addEntity(G, e))

SetPosition(e, x, y, z) == Commit("setPosition", [e |-> e, v |-> Vec3(x, y, z)], setPosition(G, e, x, y, z))

SetRotation(e, x, y, z) == Commit("setRotation", [e |-> e, v |-> Vec3(x, y, z)], setRotation(G, e, x, y, z))

ApplyImpulse(e, impulse, worldPoint) == Commit("applyImpulse", [e |-> e, v |-> impulse], applyImpulse(G, e, impulse, worldPoint))

\* this.engine.render() called by the hosting view
CallRender ==
    /\ ~engine.started
    /\ Commit("render", 0, render([G EXCEPT !.engine.started = TRUE, !.oc = Begin(oc)], 0))

\* the browser runs a requested animation frame, elapsed ticks after the last
AnimationFrame(elapsed) ==
    /\ engine.requests > 0
    /\ Commit("render", elapsed, render([G EXCEPT !.engine.requests = @ - 1, !.oc = Begin(oc)], elapsed))

\* ------------------------------------------------ the engine and its entities
\* camera.position.set(...) by the hosting view, after the Engine is built
ViewCamera(c, far) == [c EXCEPT !.camera = Placed(c.camera, far)]

\* the arguments the operations are tried with
Positions == {Vec3(0, 1, 0)}

Rotations == {Vec3(1, 1, 0)}

Impulses == {Vec3(100, -100, 0)}

Elapsed == {1, MaxSubSteps * StepTicks + 5}

InitEng ==
    /\ oc \in {ViewCamera(EngineSettings(OrbitControls(Camera("perspective"), DomElement)), far) : far \in BOOLEAN}
    /\ InitEngineSide(BOOLEAN)

NextEng ==
    \/ \E e \in Entities : engine.physics /\ AddEntity(e)
    \/ \E e \in Entities, p \in Positions : SetPosition(e, p.x, p.y, p.z)
    \/ \E r \in Rotations : SetRotation("cube", r.x, r.y, r.z)
    \/ \E i \in Impulses : ApplyImpulse("cube", i, Vec3Zero)
    \/ CallRender
    \/ \E elapsed \in Elapsed : AnimationFrame(elapsed)

SpecEng == InitEng /\ [][NextEng]_vars

\* ------------------------------------------------ the controller's events
\* the owner's configuration of the limits and speeds, written after construction
MinAzimuthAngle == -(PI \div 4)

MaxAzimuthAngle == PI \div 4

MinPolarAngle == PI \div 4

MinDistance == (ZoomNum - 1) * Unit

MaxDistance == ZoomNum * Unit + Unit \div 2

MinZoom == ZoomOne - 5 * Unit

MaxZoom == ZoomOne + 5 * Unit

\* autoRotateSpeed for which getAutoRotationAngle() is one coarse unit
AutoRotateSpeed == (60 * 60) \div (2 * PiCoarse)

Tuned(c) ==
    [c EXCEPT !.minAzimuthAngle = MinAzimuthAngle, !.maxAzimuthAngle = MaxAzimuthAngle,
              !.minPolarAngle = MinPolarAngle, !.maxPolarAngle = EngineMaxPolarAngle,
              !.minDistance = MinDistance, !.maxDistance = MaxDistance,
              !.minZoom = MinZoom, !.maxZoom = MaxZoom, !.autoRotateSpeed = AutoRotateSpeed]

\* the controls as built, or with the owner's writes made after the constructor
Configured(c, tuned, damping) ==
    IF ~tuned /\ ~damping THEN c
    ELSE [Begin(IF tuned THEN Tuned(c) ELSE c) EXCEPT !.enableDamping = damping]

MouseEvent(button, modifier, x, y) == [clientX |-> x, clientY |-> y, modifier |-> modifier, button |-> button]

TouchEvent(touches) == [touches |-> touches]

\* a drag of one and a half times the canvas height: three half turns
FarPixel == 3 * PiCoarse

\* ------------------------------------------------ update() and its accumulators
InitUpd ==
    /\ \E kind \in {"perspective", "orthographic"}, tuned, damping \in BOOLEAN :
            LET c == OrbitControls(Placed(Camera(kind), TRUE), DomElement)
            IN  oc = Configured(c, tuned, damping)
    /\ InitEngineSide({FALSE})

\* the specification follows MaxSteps operations from the initial state
Budget == h.steps < MaxSteps

NextUpd ==
    \/ \E button \in {0, 2} : Budget /\ MouseDown(MouseEvent(button, FALSE, 0, 0))
    \/ \E p \in {Vec2(1, 1), Vec2(FarPixel, FarPixel)} : Budget /\ MouseMove(MouseEvent(0, FALSE, p.x, p.y))
    \/ \E x \in {0} : Budget /\ MouseUp(MouseEvent(0, FALSE, x, x))
    \/ \E deltaY \in {-1, 1} : Budget /\ MouseWheel([deltaY |-> deltaY])
    \/ Budget /\ KeyDown([keyCode |-> KeyLeft])
    \/ Budget /\ Update
    \/ Budget /\ Reset
    \/ \E flag \in {"enableDamping", "autoRotate"}, value \in BOOLEAN : Budget /\ SetFlag(flag, value)

SpecUpd == InitUpd /\ [][NextUpd]_vars

\* ------------------------------------------------ wheel, keys and camera kinds
\* two fingers, the second at distance span from the first
TwoTouches(x, span) == TouchEvent(<<Vec2(x, 0), Vec2(x + span, 0)>>)

InitPan ==
    /\ oc \in {OrbitControls(Placed(Camera(kind), TRUE), DomElement) : kind \in {"perspective", "orthographic", "other"}}
    /\ InitEngineSide({FALSE})

\* this specification follows PanSteps operations from the initial state
ShortBudget == h.steps < PanSteps

NextPan ==
    \/ \E button \in {0, 1, 2} : ShortBudget /\ MouseDown(MouseEvent(button, FALSE, 0, 0))
    \/ \E x \in {1} : ShortBudget /\ MouseMove(MouseEvent(0, FALSE, x, x))
    \/ \E x \in {0} : ShortBudget /\ MouseUp(MouseEvent(0, FALSE, x, x))
    \/ \E deltaY \in {-1, 0, 1} : ShortBudget /\ MouseWheel([deltaY |-> deltaY])
    \/ \E keyCode \in {KeyLeft, KeyUp, KeyRight, KeyBottom, 0} : ShortBudget /\ KeyDown([keyCode |-> keyCode])
    \/ ShortBudget /\ TouchStart(TwoTouches(0, 2))
    \/ ShortBudget /\ TouchMove(TwoTouches(1, 4))
    \/ ShortBudget /\ TouchEnd(TouchEvent(<< >>))
    \/ \E flag \in {"enabled", "enableKeys"}, value \in BOOLEAN : ShortBudget /\ SetFlag(flag, value)
    \/ ShortBudget /\ Update
    \/ ShortBudget /\ Reset
    \/ ShortBudget /\ Dispose

SpecPan == InitPan /\ [][NextPan]_vars

\* ------------------------------------------------ capability flags
\* one finger at (x, x)
OneTouch(x) == TouchEvent(<<Vec2(x, x)>>)

InitCap ==
    /\ \E kind \in {"perspective", "orthographic"}, damping \in BOOLEAN :
            oc = Configured(OrbitControls(Placed(Camera(kind), TRUE), DomElement), FALSE, damping)
    /\ InitEngineSide({FALSE})

\* a touchmove reports the fingers of the gesture: a finger that is put down
\* or lifted is announced by a touchstart or a touchend first
Fingers(event) == oc.state \in {TOUCH_DOLLY_PAN, TOUCH_DOLLY_ROTATE} <=> Len(event.touches) = 2

NextCap ==
    \/ \E button \in {0, 1, 2} : ShortBudget /\ MouseDown(MouseEvent(button, FALSE, 0, 0))
    \/ \E x \in {1} : ShortBudget /\ MouseMove(MouseEvent(0, FALSE, x, x))
    \/ \E x \in {0} : ShortBudget /\ MouseUp(MouseEvent(0, FALSE, x, x))
    \/ \E deltaY \in {-1, 1} : ShortBudget /\ MouseWheel([deltaY |-> deltaY])
    \/ \E keyCode \in {KeyLeft, 0} : ShortBudget /\ KeyDown([keyCode |-> keyCode])
    \/ \E event \in {OneTouch(0), TwoTouches(0, 2)} : ShortBudget /\ TouchStart(event)
    \/ \E event \in {OneTouch(1), TwoTouches(1, 4)} : ShortBudget /\ Fingers(event) /\ TouchMove(event)
    \/ ShortBudget /\ TouchEnd(TouchEvent(<< >>))
    \/ \E flag \in {"enableRotate", "enableZoom", "enablePan", "enableKeys"}, value \in BOOLEAN :
            ShortBudget /\ SetFlag(flag, value)

SpecCap == InitCap /\ [][NextCap]_vars

\* ------------------------------------------------ 'start' and 'end'
\* the owner has registered listeners for 'start' and 'end' that count them
Observed(c) == [c EXCEPT !.heard.on = TRUE]

InitEvt ==
    /\ oc = Observed(OrbitControls(Placed(Camera("perspective"), TRUE), DomElement))
    /\ InitEngineSide({FALSE})

\* the fingers on the canvas, as the last touch event reported them
FingersDown == IF h.op \in {"touchstart", "touchmove", "touchend", "set"} THEN Len(h.arg.touches) ELSE 0

\* n fingers, the k-th at (x * k, 0)
FingersAt(n, x) == TouchEvent([k \in 1..n |-> Vec2(x * k, 0)])

\* touch events report the fingers that are down: a touchstart more of them
\* than before, a touchmove as many, a touchend fewer; the mouse and the wheel
\* are used while no finger is down
NextEvt ==
    \/ \E button \in {0, 2} : ShortBudget /\ FingersDown = 0 /\ MouseDown(MouseEvent(button, FALSE, 0, 0))
    \/ \E x \in {1} : ShortBudget /\ FingersDown = 0 /\ MouseMove(MouseEvent(0, FALSE, x, x))
    \/ \E x \in {0} : ShortBudget /\ FingersDown = 0 /\ MouseUp(MouseEvent(0, FALSE, x, x))
    \/ \E deltaY \in {-1, 1} : ShortBudget /\ FingersDown = 0 /\ MouseWheel([deltaY |-> deltaY])
    \/ \E n \in 1..3 : ShortBudget /\ FingersDown < n /\ TouchStart(FingersAt(n, 2))
    \/ \E n \in 1..2 : ShortBudget /\ FingersDown = n /\ TouchMove(FingersAt(n, 3))
    \/ \E n \in 0..2 : ShortBudget /\ FingersDown > n /\ TouchEnd(FingersAt(n, 2))

SpecEvt == InitEvt /\ [][NextEvt]_vars

\* ------------------------------------------------ touch gestures and the flags
\* the owner writes a flag while fingers may be down: they stay down
SetFlagTouching(flag, value) ==
    /\ oc[flag] # value
    /\ Handled("set", [touches |-> FingersAt(FingersDown, 2).touches, flag |-> flag, value |-> value],
               [Begin(oc) EXCEPT ![flag] = value])

\* controls.touches.TWO as the owner may set it
TwoFingerRoles == {TOUCH.DOLLY_PAN, TOUCH.DOLLY_ROTATE}

InitTouch ==
    /\ \E two \in TwoFingerRoles :
            oc = [OrbitControls(Placed(Camera("perspective"), TRUE), DomElement) EXCEPT !.touches.TWO = two]
    /\ InitEngineSide({FALSE})

NextTouch ==
    \/ \E n \in 1..3 : Budget /\ FingersDown < n /\ TouchStart(FingersAt(n, 2))
    \/ \E n \in 1..3 : Budget /\ FingersDown = n /\ TouchMove(FingersAt(n, 3))
    \/ \E n \in 0..2 : Budget /\ FingersDown > n /\ TouchEnd(FingersAt(n, 2))
    \/ \E flag \in {"enabled", "enableRotate", "enableZoom", "enablePan"}, value \in BOOLEAN :
            Budget /\ SetFlagTouching(flag, value)

SpecTouch == InitTouch /\ [][NextTouch]_vars

\* ------------------------------------------------ saveState() and reset()
\* the owner builds the controls, sets the damping and calls saveState()
InitSave ==
    /\ \E kind \in {"perspective", "orthographic"}, tuned, damping \in BOOLEAN :
            oc = saveState(Configured(OrbitControls(Placed(Camera(kind), TRUE), DomElement), tuned, damping))
    /\ InitEngineSide({FALSE})

NextSave ==
    \/ \E button \in {0} : Budget /\ MouseDown(MouseEvent(button, FALSE, 0, 0))
    \/ \E x \in {1} : Budget /\ MouseMove(MouseEvent(0, FALSE, x, x))
    \/ \E x \in {0} : Budget /\ MouseUp(MouseEvent(0, FALSE, x, x))
    \/ \E deltaY \in {-1, 1} : Budget /\ MouseWheel([deltaY |-> deltaY])
    \/ Budget /\ KeyDown([keyCode |-> KeyLeft])
    \/ Budget /\ Update
    \/ Budget /\ SaveState
    \/ Budget /\ Reset

SpecSave == InitSave /\ [][NextSave]_vars

\* ------------------------------------------------ rotate drags and the wheel
\* a canvas twice as wide as it is high
WideElement == [clientHeight |-> 2 * PiCoarse, clientWidth |-> 4 * PiCoarse]

\* the owner's rotateSpeed and zoomSpeed: 1.0, or 2.0 when fast
Speeds(c, fast) == IF fast THEN [c EXCEPT !.rotateSpeed = 2 * DampDen, !.zoomSpeed = 2] ELSE c

InitRot ==
    /\ \E domElement \in {DomElement, WideElement}, tuned, damping, fast \in BOOLEAN :
            LET c == OrbitControls(Placed(Camera("perspective"), TRUE), domElement)
            IN  oc = Speeds(Configured(c, tuned, damping), fast)
    /\ InitEngineSide({FALSE})

\* the pointer positions of the move events
Pointers == {Vec2(1, 0), Vec2(2, 1)}

NextRot ==
    \/ \E x \in {0} : ShortBudget /\ MouseDown(MouseEvent(0, FALSE, x, x))
    \/ \E p \in Pointers : ShortBudget /\ MouseMove(MouseEvent(0, FALSE, p.x, p.y))
    \/ \E x \in {0} : ShortBudget /\ MouseUp(MouseEvent(0, FALSE, x, x))
    \/ \E deltaY \in {-1, 1} : ShortBudget /\ MouseWheel([deltaY |-> deltaY])
    \/ ShortBudget /\ KeyDown([keyCode |-> KeyLeft])
    \/ ShortBudget /\ Update
    \/ \E value \in BOOLEAN : ShortBudget /\ SetFlag("enableDamping", value)

SpecRot == InitRot /\ [][NextRot]_vars

\* ------------------------------------------------ the interaction state
InitCtl ==
    /\ oc \in {OrbitControls(Camera("perspective"), DomElement),
               EngineSettings(OrbitControls(Camera("perspective"), DomElement))}
    /\ InitEngineSide({FALSE})

NextCtl ==
    \/ \E button \in {0, 1, 2, 3}, modifier \in BOOLEAN : MouseDown(MouseEvent(button, modifier, 0, 0))
    \/ \E x \in {1} : MouseMove(MouseEvent(0, FALSE, x, 0))
    \/ \E x \in {0} : MouseUp(MouseEvent(0, FALSE, x, x))
    \/ MouseWheel([deltaY |-> 1])
    \/ \E keyCode \in {KeyLeft, 0} : KeyDown([keyCode |-> keyCode])
    \/ \E n \in 1..3 : TouchStart(TouchEvent([k \in 1..n |-> Vec2(k, 0)]))
    \/ \E n \in 1..2 : TouchMove(TouchEvent([k \in 1..n |-> Vec2(k, 0)]))
    \/ TouchEnd(TouchEvent(<< >>))
    \/ Update
    \/ SaveState
    \/ \E flag \in Flags \ {"autoRotate", "enableDamping"}, value \in BOOLEAN : SetFlag(flag, value)

SpecCtl == InitCtl /\ [][NextCtl]_vars

\* ------------------------------------------------ the hosting view
\* GameViewComponent.ngAfterViewInit has run: the Engine is built,
\* initializeEngine() is suspended at 'await loadTexture(...)', and the
\* ResizeObserver observes the canvas
InitView ==
    /\ oc = EngineSettings(OrbitControls(Camera("perspective"), DomElement))
    /\ engine = EngineFields(TRUE)
    /\ ent = [e \in Entities |-> [kind |-> e, mesh |-> 0, rigidBody |-> 0]]
    /\ meshes = << >>
    /\ bodies = << >>
    /\ world = [bodies |-> << >>, accumulator |-> 0, substeps |-> 0]
    /\ scene = << >>
    /\ view = [texture |-> "pending", observing |-> TRUE, promise |-> "pending"]
    /\ h = [op |-> "init", arg |-> << >>, threw |-> FALSE, steps |-> 0]

\* the statements with engine.render() moved to the front
StatementRenderFirst(g, k) ==
    CASE k = 1 -> render([g EXCEPT !.engine.started = TRUE, !.oc = Begin(g.oc)], 0)
      [] k = 2 -> addEntity(g, "ground")
      [] k = 3 -> addEntity(g, "cube")
      [] k = 4 -> setPosition(g, "cube", 0, 1, 0)
      [] k = 5 -> setRotation(g, "cube", 1, 1, 0)
      [] k = 6 -> applyImpulse(g, "cube", Vec3(70, -100, 25), Vec3Zero)
      [] k = 7 -> [g EXCEPT !.scene = Append(@, 0)]
      [] k = 8 -> [g EXCEPT !.oc = ViewCamera(g.oc, TRUE)]

\* the statements of initializeEngine() after 'await loadTexture(...)', in
\* order.  Euler angles are held in quarter turns: the cube's PI / 4 is taken
\* as one.  The light is an object of the scene that is no entity's mesh (0).
Statement(g, k) ==
    CASE k = 1 -> addEntity(g, "ground")
      [] k = 2 -> addEntity(g, "cube")
      [] k = 3 -> setPosition(g, "cube", 0, 1, 0)
      [] k = 4 -> setRotation(g, "cube", 1, 1, 0)
      [] k = 5 -> applyImpulse(g, "cube", Vec3(70, -100, 25), Vec3Zero)
      [] k = 6 -> [g EXCEPT !.scene = Append(@, 0)]
      [] k = 7 -> [g EXCEPT !.oc = ViewCamera(g.oc, TRUE)]
      [] k = 8 -> render([g EXCEPT !.engine.started = TRUE, !.oc = Begin(g.oc)], 0)

\* statements k..8 run in turn, each on what the one before left, until one throws
RECURSIVE initializeEngine(_, _)
initializeEngine(g, k) ==
    IF k > 8 \/ g.threw THEN g ELSE The({initializeEngine(g1, k + 1) : g1 \in {Statement(g, k)}})

\* a loadTexture that hands reject to the loader as its onError
loadTextureRejecting(outcome) == IF outcome = "load" THEN "resolved" ELSE "rejected"

\* loadTexture: new Promise((resolve) => new TextureLoader().load(url, resolve));
\* the state of the promise once the image load has ended with outcome:
\* resolve is the loader's onLoad, and no onError is given
loadTexture(outcome) == IF outcome = "load" THEN "resolved" ELSE "pending"

\* TextureLoader calls resolve: the continuation of initializeEngine() runs
TextureLoaded ==
    /\ view.texture = "pending"
    /\ \E g \in {[G EXCEPT !.view.texture = "loaded", !.view.promise = loadTexture("load")]} :
            Commit("textureLoaded", << >>, initializeEngine(g, 1))

\* what 'await loadTexture(...)' does once the promise is as the failed load
\* leaves it: nothing while it is pending; a rejection is thrown out of the
\* async function, whose remaining statements do not run
awaitFailed(g) == [g EXCEPT !.view.texture = "failed", !.view.promise = loadTexture("error")]

\* the image load fails: the loader has no onError to call
TextureFailed ==
    /\ view.texture = "pending"
    /\ Commit("textureFailed", << >>, awaitFailed(G))

\* the ResizeObserver's callback: this.engine.updateSize(width, height)
Resize(width, height) ==
    /\ view.observing
    /\ engine.size # [width |-> width, height |-> height]
    /\ Commit("resize", [width |-> width, height |-> height], updateSize(G, width, height))

\* GameViewComponent.ngOnDestroy: resizeObserver.disconnect()
NgOnDestroy ==
    /\ view.observing
    /\ Commit("ngOnDestroy", << >>, [G EXCEPT !.view.observing = FALSE])

\* the canvas sizes the observer reports
Widths == {DomElement.clientWidth, DomElement.clientWidth + 1}

\* the ticks between two frames: less than a fixed step, or a whole one
FrameTicks == {1, StepTicks}

\* the browser runs the frame that was requested
Frame == \E elapsed \in FrameTicks : AnimationFrame(elapsed)

\* The input events here are those that leave sphericalDelta and panOffset
\* empty, so that the frames' update() calls stay exact for any number of
\* frames; the events that feed them are followed in SpecUpd and SpecCap.
NextView ==
    \/ TextureLoaded
    \/ \E width \in Widths : Resize(width, DomElement.clientHeight)
    \/ NgOnDestroy
    \/ \E button \in {0, 2} : MouseDown(MouseEvent(button, FALSE, 0, 0))
    \/ \E x \in {0} : MouseUp(MouseEvent(0, FALSE, x, x))
    \/ KeyDown([keyCode |-> 0])
    \/ Dispose
    \/ Frame

SpecView == InitView /\ [][NextView]_vars

\* the hosting view when the image load may fail as well
NextLoad ==
    \/ TextureFailed
    \/ NextView

SpecLoad == InitView /\ [][NextLoad]_vars

\* requestAnimationFrame: the browser runs a requested frame eventually
SpecViewFair == SpecView /\ WF_vars(Frame)

\* ------------------------------------------------ auto-rotation in the frame loop
\* the Engine's controls with the owner's autoRotateSpeed, damping as the
\* Engine sets it or switched off by the owner, the camera placed by the view
InitAuto ==
    /\ \E damping \in BOOLEAN :
            LET c == EngineSettings(OrbitControls(Camera("perspective"), DomElement))
            IN  oc = ViewCamera([c EXCEPT !.autoRotateSpeed = AutoRotateSpeed, !.enableDamping = damping], TRUE)
    /\ InitEngineSide(BOOLEAN)

\* the ticks between two frames: half a fixed step, one, or more than ten
SlowAndFast == Elapsed \cup {StepTicks}

NextAuto ==
    \/ CallRender
    \/ \E elapsed \in SlowAndFast : AnimationFrame(elapsed)
    \/ \E value \in BOOLEAN : ShortBudget /\ SetFlag("autoRotate", value)
    \/ \E x \in {0} : ShortBudget /\ MouseDown(MouseEvent(2, FALSE, x, x))
    \/ \E x \in {0} : ShortBudget /\ MouseUp(MouseEvent(0, FALSE, x, x))
    \/ ShortBudget /\ Update

SpecAuto == InitAuto /\ [][NextAuto]_vars

\* ------------------------------------------------ claims about the controller
\* C1 (as claimed): the state is one of the eight STATE values, is NONE
\* before any input, and is NONE right after every mouseup and every touchend
\* delivered to the controller, whatever the enable flags are.
C1_NoneAfterPointerUp ==
    /\ oc.state \in STATES
    /\ h.op = "init" => oc.state = NONE
    /\ h.op \in {"mouseup", "touchend"} => oc.state = NONE

\* C1, the part the handlers keep: the state is one of the eight values and
\* is NONE after a mouseup or touchend that found the controller enabled.
C1_NoneAfterEnabledPointerUp ==
    /\ oc.state \in STATES
    /\ (h.op \in {"mouseup", "touchend"} /\ oc.enabled) => oc.state = NONE

\* update() ran in the handler that ran last
Updated == oc.ret # "none"

\* C2: after any update() the azimuth is in [minAzimuthAngle, maxAzimuthAngle]
\* and the polar angle in [minPolarAngle, maxPolarAngle] and in [EPS, PI - EPS],
\* and the camera is placed at these angles: clamped, not wrapped.
C2_AnglesInBounds ==
    Updated =>
        /\ oc.minAzimuthAngle <= oc.spherical.theta /\ oc.spherical.theta <= oc.maxAzimuthAngle
        /\ Max(oc.minPolarAngle, EPS) <= oc.spherical.phi /\ oc.spherical.phi <= Min(oc.maxPolarAngle, PI - EPS)
        /\ oc.camera.position.ph = oc.spherical.phi
        /\ oc.camera.position.th = WrapAngle(oc.spherical.theta)

\* a pending azimuth delta of more than a full turn was clamped to the limit
C2_Witness ==
    /\ Updated /\ ~oc.enableDamping
    /\ Abs(oc.entry.sphericalDelta.theta) > 2 * PI
    /\ oc.spherical.theta = MinAzimuthAngle

\* C3: after any update() the radius is in [minDistance, maxDistance], and
\* after an update() that follows a dolly of an orthographic camera the zoom
\* is in [minZoom, maxZoom].
C3_DistanceAndZoomInBounds ==
    Updated =>
        /\ oc.minDistance <= oc.spherical.radius /\ oc.spherical.radius <= oc.maxDistance
        /\ oc.camera.position.r = oc.spherical.radius
        /\ (oc.camera.kind = "orthographic" /\ oc.entry.zoomChanged) =>
                (oc.minZoom <= oc.camera.zoom /\ oc.camera.zoom <= oc.maxZoom)

\* an accumulated dolly-out scale would have passed maxDistance and was clamped
C3_Witness ==
    /\ Updated
    /\ oc.entry.scale.n > oc.entry.scale.d
    /\ oc.spherical.radius = MaxDistance

\* C4: with enableDamping false an update() leaves sphericalDelta and
\* panOffset zero, whatever they were, in any state and with any autoRotate.
C4_UndampedConsumesAll ==
    (Updated /\ ~oc.enableDamping) => (oc.sphericalDelta = [theta |-> 0, phi |-> 0] /\ oc.panOffset = Vec2Zero)

\* update() was called mid-drag, damping switched off, with rotation and pan pending
C4_Witness ==
    /\ h.op = "update" /\ ~oc.enableDamping /\ oc.state # NONE
    /\ oc.entry.sphericalDelta.theta # 0 /\ oc.entry.sphericalDelta.phi # 0
    /\ oc.entry.panOffset # Vec2Zero

DampedConfig == oc.enableDamping /\ 0 < oc.dampingFactor /\ oc.dampingFactor < DampDen

\* x' = (1 - dampingFactor) * x, without rounding
DecayOf(after, before) == DampDen * after = (DampDen - oc.dampingFactor) * before

\* the azimuth delta update() adds before it applies the accumulators
Injected == IF oc.autoRotate /\ oc.entry.state = NONE THEN getAutoRotationAngle(oc) ELSE 0

IsChange(type) == type = "change"

Changes == Len(SelectSeq(oc.dispatched, IsChange))

\* the test update() makes, on what it found and the pose it computed
Gate ==
    \/ oc.entry.zoomChanged
    \/ distanceToSquared(oc.entry.lastPosition, oc.camera.position) > EPS
    \/ RotationSq(oc.entry.lastQuaternion, oc.camera.quaternion) > EPS

\* what update() leaves when it dispatches 'change' and when it does not
GatedOutcome ==
    IF Gate
    THEN /\ oc.ret = "true"
         /\ oc.lastPosition = oc.camera.position /\ oc.lastQuaternion = oc.camera.quaternion
         /\ ~oc.zoomChanged
    ELSE /\ oc.ret = "false"
         /\ oc.lastPosition = oc.entry.lastPosition /\ oc.lastQuaternion = oc.entry.lastQuaternion

\* C6 (as claimed): 'change' is dispatched if and only if an update() finds
\* its test true; then update() returns true, refreshes the recorded pose and
\* clears the zoom-changed flag, and otherwise it returns false and leaves
\* the recorded pose.
C6_ChangeOnlyFromUpdate ==
    h.op \in {"update", "reset"} => (GatedOutcome /\ Changes = (IF Gate THEN 1 ELSE 0))

\* C6 (amended): an update() dispatches 'change' if and only if its test is
\* true, with the outcomes claimed; reset() dispatches one 'change' of its own
\* before its update(), whatever the test gives.
C6_ChangeFromUpdateAndReset ==
    /\ h.op = "update" => (GatedOutcome /\ Changes = (IF Gate THEN 1 ELSE 0))
    /\ h.op = "reset" => (GatedOutcome /\ Changes = (IF Gate THEN 2 ELSE 1) /\ Head(oc.dispatched) = "change")

\* an update() that moved the camera with no zoom change, and dispatched 'change'
C6_Witness ==
    /\ h.op = "update" /\ oc.ret = "true" /\ ~oc.entry.zoomChanged
    /\ oc.lastPosition # oc.entry.lastPosition

\* ------------------------------------------------ claims about wheel, keys, camera kinds
\* onMouseWheel goes past its first test
WheelAccepted(c) == c.enabled /\ c.enableZoom /\ c.state \in {NONE, ROTATE}

\* what an accepted wheel event leaves, but for the dolly step
WheelFrame ==
    /\ oc'.dispatched \in {<<"start", "end">>, <<"start", "change", "end">>}
    /\ oc'.updates = 1
    /\ oc'.state = oc.state

\* the dolly step of a wheel event, on the controller the event finds
WheelDolly(c, deltaY) ==
    IF deltaY < 0 THEN dollyOut(c, getZoomScale(c)) ELSE IF deltaY > 0 THEN dollyIn(c, getZoomScale(c)) ELSE c

\* the update() of the handler found the scale, the zoom and the flag a dolly step leaves
DollyApplied == oc'.entry.scale # RatioOne \/ oc'.entry.zoomChanged \/ oc'.enableZoom # oc.enableZoom

\* C11 (as claimed): every wheel event the controller accepts dispatches
\* 'start', applies one dolly step and then one update(), and dispatches
\* 'end', and leaves the state as it was.
C11_WheelAlwaysDollies ==
    [][(h'.op = "wheel" /\ WheelAccepted(oc)) => (WheelFrame /\ DollyApplied)]_vars

\* C11 (amended): every wheel event the controller accepts dispatches 'start',
\* applies one dolly step when deltaY is not zero (dollyOut when negative,
\* dollyIn when positive) and none when it is zero, then runs one update(),
\* which may dispatch 'change', and dispatches 'end'; the state is as it was.
\* A wheel event that is not accepted changes nothing.
C11_WheelStartDollyEnd ==
    [][h'.op = "wheel" =>
        IF WheelAccepted(oc)
        THEN /\ WheelFrame
             /\ LET d == WheelDolly(Begin(oc), h'.arg.deltaY)
                IN  /\ oc'.entry.scale = d.scale
                    /\ oc'.entry.zoomChanged = d.zoomChanged
                    /\ oc'.camera.zoom = d.camera.zoom
                    /\ oc'.enableZoom = d.enableZoom
             /\ DollyApplied <=> h'.arg.deltaY # 0
        ELSE oc' = Begin(oc)]_vars

\* a wheel event in the middle of a rotate drag dollied out and moved the camera
C11_Witness ==
    /\ h.op = "wheel" /\ h.arg.deltaY < 0 /\ oc.state = ROTATE
    /\ oc.dispatched = <<"start", "change", "end">>
    /\ oc.entry.scale # RatioOne

\* the pixels an arrow key pans by: <<deltaX, deltaY>>
ArrowPan(c, keyCode) ==
    CASE keyCode = KeyUp -> <<0, c.keyPanSpeed>>
      [] keyCode = KeyBottom -> <<0, -c.keyPanSpeed>>
      [] keyCode = KeyLeft -> <<c.keyPanSpeed, 0>>
      [] keyCode = KeyRight -> <<-c.keyPanSpeed, 0>>

\* C12: a keydown event, when enabled, enableKeys and enablePan are all true,
\* performs one pan step of keyPanSpeed pixels and one update() if the key is
\* one of the four arrow keys and nothing otherwise; in every case it leaves
\* the state as it was and dispatches neither 'start' nor 'end'.
C12_KeyDownPansOnce ==
    [][h'.op = "keydown" =>
        /\ oc'.state = oc.state
        /\ \A i \in 1..Len(oc'.dispatched) : oc'.dispatched[i] = "change"
        /\ IF oc.enabled /\ oc.enableKeys /\ oc.enablePan /\ h'.arg.keyCode \in {KeyUp, KeyBottom, KeyLeft, KeyRight}
           THEN LET by == ArrowPan(oc, h'.arg.keyCode)
                    p == pan(Begin(oc), by[1], by[2])
                IN  /\ oc'.updates = 1
                    /\ oc'.entry.panOffset = p.panOffset
                    /\ oc'.enablePan = p.enablePan
           ELSE oc' = Begin(oc)]_vars

\* an arrow key in the middle of a drag panned the view and moved the camera
C12_Witness ==
    /\ h.op = "keydown" /\ h.arg.keyCode = KeyUp /\ oc.state = ROTATE
    /\ oc.entry.panOffset # Vec2Zero /\ oc.updates = 1
    /\ oc.dispatched = <<"change">>

\* the operation reaches a call of pan(): an arrow key, a mousemove of a pan
\* drag, a touchmove of a two-finger dolly-pan
PanRequested ==
    /\ oc.enabled /\ oc.enablePan
    /\ \/ h'.op = "keydown" /\ oc.enableKeys /\ h'.arg.keyCode \in {KeyUp, KeyBottom, KeyLeft, KeyRight}
       \/ h'.op = "mousemove" /\ oc.state = PAN
       \/ h'.op = "touchmove" /\ oc.state = TOUCH_DOLLY_PAN

\* the operation reaches a call of dollyIn() or dollyOut(): a wheel event with
\* a vertical delta, a mousemove of a dolly drag that moved vertically, a
\* touchmove of a two-finger dolly-pan
DollyRequested ==
    /\ oc.enabled /\ oc.enableZoom
    /\ \/ h'.op = "wheel" /\ oc.state \in {NONE, ROTATE} /\ h'.arg.deltaY # 0
       \/ h'.op = "mousemove" /\ oc.state = DOLLY /\ h'.arg.clientY # oc.dollyStart.y
       \/ h'.op = "touchmove" /\ oc.state = TOUCH_DOLLY_PAN

\* C14: when the camera is neither perspective nor orthographic, a pan request
\* sets enablePan to false and a dolly request sets enableZoom to false, without
\* an error and without a change of panOffset, scale or the camera's zoom; no
\* later operation of the controller sets the flag back, and later pan and
\* dolly input has no effect.
C14_OtherCameraDegrades ==
    [][oc.camera.kind = "other" =>
        /\ ~oc'.threw
        /\ oc'.panOffset = Vec2Zero /\ oc'.entry.panOffset = Vec2Zero
        /\ oc'.scale = RatioOne /\ oc'.entry.scale = RatioOne
        /\ ~oc'.zoomChanged /\ ~oc'.entry.zoomChanged /\ oc'.camera.zoom = oc.camera.zoom
        /\ PanRequested => ~oc'.enablePan
        /\ DollyRequested => ~oc'.enableZoom
        /\ ~oc.enablePan => ~oc'.enablePan
        /\ ~oc.enableZoom => ~oc'.enableZoom]_vars

\* both capabilities are lost, and an arrow key after that did nothing
C14_Witness ==
    /\ oc.camera.kind = "other" /\ ~oc.enablePan /\ ~oc.enableZoom
    /\ h.op = "keydown" /\ h.arg.keyCode = KeyLeft /\ oc.enabled /\ oc.enableKeys
    /\ oc.updates = 0 /\ ~h.threw

\* ------------------------------------------------ claims about classification and capabilities
\* the role configured for a button of a mousedown event
RoleOf(c, button) ==
    IF button = 0 THEN c.mouseButtons.LEFT ELSE IF button = 1 THEN c.mouseButtons.MIDDLE ELSE c.mouseButtons.RIGHT

\* the state of a role, and the flag that allows it
RoleState(role) == IF role = MOUSE.ROTATE THEN ROTATE ELSE IF role = MOUSE.DOLLY THEN DOLLY ELSE PAN

RoleEnabled(c, role) ==
    IF role = MOUSE.ROTATE THEN c.enableRotate ELSE IF role = MOUSE.DOLLY THEN c.enableZoom ELSE c.enablePan

Swapped(role) == IF role = MOUSE.ROTATE THEN MOUSE.PAN ELSE IF role = MOUSE.PAN THEN MOUSE.ROTATE ELSE role

\* a mousedown of an enabled controller on a button with a configured role
\* enters the state of `role`, if the capability of that state is enabled
Enters(role) == RoleEnabled(oc, role) => oc'.state = RoleState(role)

RoleMouseDown ==
    /\ h'.op = "mousedown" /\ oc.enabled /\ h'.arg.button \in {0, 1, 2}
    /\ RoleOf(oc, h'.arg.button) \in {MOUSE.ROTATE, MOUSE.DOLLY, MOUSE.PAN}

\* C13 (as claimed): for every mouse button and every role configured for it,
\* a modifier key at mousedown swaps ROTATE and PAN, and without a modifier
\* the button enters the state of its configured role.
C13_ModifierSwaps ==
    [][RoleMouseDown =>
        LET role == RoleOf(oc, h'.arg.button)
        IN  Enters(IF h'.arg.modifier THEN Swapped(role) ELSE role)]_vars

\* C13 (what the code does): as claimed for the left and the middle button and
\* for a right button whose role is ROTATE or DOLLY; a right button whose role
\* is PAN enters PAN with and without a modifier.
C13_ModifierSwapsButRightPan ==
    [][RoleMouseDown =>
        LET role == RoleOf(oc, h'.arg.button)
        IN  Enters(IF h'.arg.modifier /\ ~(h'.arg.button = 2 /\ role = MOUSE.PAN) THEN Swapped(role) ELSE role)]_vars

InputEvents == {"mousedown", "mousemove", "mouseup", "wheel", "keydown", "touchstart", "touchmove", "touchend"}

\* n calls of update() and nothing else
RECURSIVE Updates(_, _)
Updates(c, n) == IF n = 0 THEN c ELSE Updates(update(c), n - 1)

\* the controller as the update() calls of the event alone would have left it
OnlyUpdated == Updates(Begin(oc), oc'.updates)

\* a mousedown, or a one-finger touchstart, whose classification is a
\* capability that is disabled
ClassifiedDisabled ==
    /\ oc.enabled
    /\ \/ /\ h'.op = "mousedown" /\ h'.arg.button \in {0, 1, 2} /\ ~h'.arg.modifier
          /\ RoleOf(oc, h'.arg.button) \in {MOUSE.ROTATE, MOUSE.DOLLY, MOUSE.PAN}
          /\ ~RoleEnabled(oc, RoleOf(oc, h'.arg.button))
       \/ /\ h'.op = "touchstart" /\ Len(h'.arg.touches) = 1
          /\ \/ oc.touches.ONE = TOUCH.ROTATE /\ ~oc.enableRotate
             \/ oc.touches.ONE = TOUCH.PAN /\ ~oc.enablePan

\* what does not depend on update(): no error, no dolly while enableZoom is
\* false, no keydown while enableKeys is false, no drag of a disabled capability
GatedBesidesDecay ==
    /\ ~oc'.threw
    /\ ~oc.enableZoom =>
            /\ oc'.scale = oc.scale /\ oc'.entry.scale = RatioOne
            /\ oc'.camera.zoom = oc.camera.zoom /\ ~oc'.zoomChanged /\ ~oc'.entry.zoomChanged
    /\ (~oc.enableKeys /\ h'.op = "keydown") => oc' = Begin(oc)
    /\ ClassifiedDisabled => (oc'.state = oc.state /\ oc'.dispatched = << >>)

\* C15 (as claimed): while a capability flag is false no input event changes
\* its accumulator (enableRotate: sphericalDelta, enablePan: panOffset,
\* enableZoom: scale and zoom) and none raises an error; with enableKeys false
\* a keydown changes nothing; a mousedown or one-finger touchstart classified
\* to a disabled capability leaves the state and dispatches no 'start'.
C15_DisabledAccumulatorFixed ==
    [][h'.op \in InputEvents =>
        /\ GatedBesidesDecay
        /\ ~oc.enableRotate => oc'.sphericalDelta = oc.sphericalDelta
        /\ ~oc.enablePan => oc'.panOffset = oc.panOffset]_vars

\* C15 (amended): as claimed, but for sphericalDelta and panOffset the event
\* adds nothing: they are left as the update() calls of the event's handler
\* leave them, which with damping on is a decay of what is pending and
\* without damping zero.
C15_DisabledAddsNothing ==
    [][h'.op \in InputEvents =>
        /\ GatedBesidesDecay
        /\ ~oc.enableRotate => oc'.sphericalDelta = OnlyUpdated.sphericalDelta
        /\ ~oc.enablePan => oc'.panOffset = OnlyUpdated.panOffset]_vars

\* a rotate drag whose capability was taken away: the mousemove changed nothing
C15_Witness ==
    /\ h.op = "mousemove" /\ oc.state = ROTATE /\ oc.enabled /\ ~oc.enableRotate
    /\ oc.updates = 0 /\ oc.sphericalDelta.theta = 0 /\ oc.dispatched = << >>

\* ------------------------------------------------ claims about listeners and drags
\* no listener of the controller is registered on the element or the document
NoListeners(c) ==
    /\ \A type \in DOMAIN c.surface : c.surface[type] = 0
    /\ c.document.mousemove = 0 /\ c.document.mouseup = 0

\* C16 (as claimed): after dispose() every listener is removed, and no input
\* event delivered afterwards runs a handler of the controller.
C16_DisposeRemovesListeners ==
    [][/\ h'.op = "dispose" => NoListeners(oc')
       /\ oc.disposed => h'.op \notin InputEvents]_vars

\* C16 (what the code does): dispose() leaves every listener registered.
C16_DisposeKeepsListeners ==
    [][h'.op = "dispose" => (oc'.surface = oc.surface /\ oc'.document = oc.document /\ ~NoListeners(oc'))]_vars

\* C17 (as claimed): a state other than NONE is kept until the next mouseup or
\* touchend; no mousedown of another button, mousemove, touchmove, wheel,
\* keydown or update() changes it.
C17_ActiveStateKept ==
    [][(oc.state # NONE /\ h'.op \in {"mousedown", "mousemove", "touchmove", "wheel", "keydown", "update"})
            => oc'.state = oc.state]_vars

\* C17 (what the code does): mousemove, wheel, keydown and update() keep the
\* state, and so does a touchmove that finds a touch state.
C17_KeptByMovesAndKeys ==
    [][/\ h'.op \in {"mousemove", "wheel", "keydown", "update"} => oc'.state = oc.state
       /\ (h'.op = "touchmove" /\ oc.state \in {TOUCH_ROTATE, TOUCH_PAN, TOUCH_DOLLY_PAN, TOUCH_DOLLY_ROTATE})
            => oc'.state = oc.state]_vars

\* C18 (as claimed): the document's mousemove and mouseup listeners are there
\* from the mousedown that enters a drag to the mouseup that ends it: at most
\* one of each, none while the state is NONE, and a mousemove of a drag runs
\* the handler, and so update(), once.
C18_DragListeners ==
    /\ oc.document.mousemove <= 1 /\ oc.document.mouseup <= 1
    /\ oc.state = NONE => (oc.document.mousemove = 0 /\ oc.document.mouseup = 0)
    /\ h.op = "mousemove" => oc.updates <= 1

\* C18 (what the code does): a mousedown that enters a drag adds one listener
\* of each kind, and nothing takes one away.
C18_ListenersOnlyAdded ==
    [][/\ oc'.document.mousemove = oc.document.mousemove + (IF h'.op = "mousedown" /\ oc'.dispatched = <<"start">> THEN 1 ELSE 0)
       /\ oc'.document.mouseup = oc'.document.mousemove]_vars

\* ------------------------------------------------ claims about the view and the loop
\* nothing of the engine has run: no entity, no frame, no frame request
EngineIdle ==
    /\ engine.entities = << >> /\ scene = << >> /\ meshes = << >> /\ world.bodies = << >>
    /\ ~engine.started /\ ~engine.clock /\ engine.requests = 0 /\ engine.frame = << >>

\* C19: in the view's initialization no frame is executed and no entity is
\* added before the texture load has completed; once it completes the ground
\* entity is added, then the cube entity, and only then the render loop is
\* started (its first frame draws both); input events and resize
\* notifications that arrive while the load is pending are handled.
C19_LoadThenEntitiesThenLoop ==
    /\ [](view.texture = "pending" => EngineIdle)
    /\ [][h'.op = "textureLoaded" =>
            /\ engine'.entities = <<"ground", "cube">>
            /\ engine'.started /\ engine'.requests = 1
            /\ engine'.frame = <<"step", "sync", "update", "render", "request">>
            /\ Len(engine'.rendered.meshes) = 2]_vars
    /\ [][view.texture = "pending" =>
            /\ (h'.op = "mousedown" /\ h'.arg.button = 2 /\ oc.enabled /\ oc.enableRotate)
                    => (oc'.state = ROTATE /\ oc'.dispatched = <<"start">>)
            /\ h'.op = "resize" => (engine'.size = h'.arg /\ view'.texture = "pending")]_vars

\* the load completed after a drag had begun and the canvas had been resized
C19_Witness ==
    /\ h.op = "textureLoaded" /\ view.texture = "loaded"
    /\ oc.state = ROTATE /\ engine.size.width # DomElement.clientWidth
    /\ engine.entities = <<"ground", "cube">> /\ engine.started

\* the number of times the last frame did `what`
RECURSIVE Times(_, _)
Times(frame, what) ==
    IF frame = << >> THEN 0 ELSE (IF Head(frame) = what THEN 1 ELSE 0) + Times(Tail(frame), what)

\* C20: once Engine.render() has been called, each frame issues exactly one
\* next-frame request, so exactly one request is outstanding between frames,
\* and when the scheduler is fair frames are executed again and again; no
\* operation of the engine, the controller (dispose() included) or the view
\* stops the loop.
C20_LoopNeverStops ==
    /\ [](engine.started => (engine.requests = 1 /\ Times(engine.frame, "request") = 1))
    /\ (engine.started /\ engine.frames = 1) ~> (engine.frames = 0)
    /\ (engine.started /\ engine.frames = 0) ~> (engine.frames = 1)

\* a frame ran after dispose() and after the view was destroyed
C20_Witness ==
    /\ engine.started /\ h.op = "render" /\ engine.requests = 1
    /\ oc.disposed /\ ~view.observing

\* ------------------------------------------------ claims about the engine
\* the place of a frame's step in the order the specification gives
Rank(what) ==
    IF what = "step" THEN 1 ELSE IF what = "sync" THEN 2 ELSE IF what = "update" THEN 3
    ELSE IF what = "render" THEN 4 ELSE 5

InOrder(frame) == \A i, j \in 1..Len(frame) : i < j => Rank(frame[i]) < Rank(frame[j])

\* C7 (as claimed): in every frame run by Engine.render() the physics step
\* comes before the copy of the transforms, that before the controller's
\* update(), that before the render call, and the next frame is requested
\* only after the render call.
C7_FrameOrder == h.op = "render" => InOrder(engine.frame)

\* C7, the part the engine with physics keeps: its frames are exactly
\* step, sync, update, render, request.
C7_PhysicsFrameOrder == (h.op = "render" /\ engine.physics) => engine.frame = <<"step", "sync", "update", "render", "request">>

Tracked(e) == \E k \in 1..Len(engine.entities) : engine.entities[k] = e

\* C8: at every render call each tracked entity's mesh has the position and
\* the quaternion of its rigid body.
C8_SyncedAtRender ==
    h.op = "render" =>
        \A e \in Entities : Tracked(e) =>
            /\ engine.rendered.meshes[ent[e].mesh].position = engine.rendered.bodies[ent[e].rigidBody].position
            /\ engine.rendered.meshes[ent[e].mesh].quaternion = engine.rendered.bodies[ent[e].rigidBody].quaternion

\* a frame that drew a tracked body which the physics step had moved and turned
C8_Witness ==
    /\ h.op = "render"
    /\ world.substeps > 0
    /\ \E e \in Entities :
        /\ Tracked(e)
        /\ engine.rendered.bodies[ent[e].rigidBody].position # Vec3Zero
        /\ engine.rendered.bodies[ent[e].rigidBody].quaternion # QuatIdentity
        /\ engine.rendered.bodies[ent[e].rigidBody].velocity # Vec3Zero

InSeq(x, seq) == \E k \in 1..Len(seq) : seq[k] = x

\* C9: addEntity(e) gives e a new mesh and a new rigid body, adds the body
\* to the world and the mesh to the scene and appends e to the tracked list,
\* which grows by exactly one; no step removes or reorders tracked entities.
C9_AddEntity ==
    [][/\ Len(engine.entities') >= Len(engine.entities)
       /\ SubSeq(engine.entities', 1, Len(engine.entities)) = engine.entities
       /\ h'.op = "addEntity" =>
            /\ Len(engine.entities') = Len(engine.entities) + 1
            /\ engine.entities'[Len(engine.entities')] = h'.arg
            /\ ent'[h'.arg].mesh = Len(meshes) + 1 /\ Len(meshes') = Len(meshes) + 1
            /\ ent'[h'.arg].rigidBody = Len(bodies) + 1 /\ Len(bodies') = Len(bodies) + 1
            /\ world'.bodies = Append(world.bodies, ent'[h'.arg].rigidBody)
            /\ scene' = Append(scene, ent'[h'.arg].mesh)]_vars

\* addEntity was called twice with the same entity, which is tracked twice
C9_Witness == h.op = "addEntity" /\ Len(engine.entities) = 2 /\ engine.entities[1] = engine.entities[2]

\* C10: after setPosition(x, y, z) on an initialized entity its mesh and its
\* rigid body are both at (x, y, z); after setRotation its mesh and its rigid
\* body have the same quaternion, the one of the Euler angles given.
C10_Lockstep ==
    /\ (h.op = "setPosition" /\ ~h.threw) =>
            /\ meshes[ent[h.arg.e].mesh].position = h.arg.v
            /\ bodies[ent[h.arg.e].rigidBody].position = h.arg.v
    /\ (h.op = "setRotation" /\ ~h.threw) =>
            /\ meshes[ent[h.arg.e].mesh].quaternion = bodies[ent[h.arg.e].rigidBody].quaternion
            /\ meshes[ent[h.arg.e].mesh].quaternion = ThreeSetFromEuler(h.arg.v.x, h.arg.v.y, h.arg.v.z)

\* setRotation turned an initialized entity that had been moved from the origin
C10_Witness ==
    /\ h.op = "setRotation" /\ ~h.threw
    /\ meshes[ent[h.arg.e].mesh].quaternion # QuatIdentity
    /\ bodies[ent[h.arg.e].rigidBody].position # Vec3Zero

\* ------------------------------------------------ claims about rotate drags and the wheel
\* a mousemove that the handler of a rotate drag processes
RotateMove == h'.op = "mousemove" /\ oc.enabled /\ oc.enableRotate /\ oc.state = ROTATE

\* 2 * pi * pixels * rotateSpeed / clientHeight, as a relation without rounding
IsRotation(angle, pixels) == angle * DampDen * oc.domElement.clientHeight = 2 * PI * pixels * oc.rotateSpeed

\* the pointer's displacement from the reference point, in pixels
DragX == h'.arg.clientX - oc.rotateStart.x

DragY == h'.arg.clientY - oc.rotateStart.y

\* the move adds the two angles to the pending deltas (seen by the update()
\* of the handler, where one listener is registered)
RotationAdded ==
    oc.document.mousemove = 1 =>
        /\ IsRotation(oc.sphericalDelta.theta - oc'.entry.sphericalDelta.theta, DragX)
        /\ IsRotation(oc.sphericalDelta.phi - oc'.entry.sphericalDelta.phi, DragY)

\* update() clamped nothing: the angles and the radius it left are inside the limits
Unclamped(c) ==
    /\ c.minAzimuthAngle < c.spherical.theta /\ c.spherical.theta < c.maxAzimuthAngle
    /\ Max(c.minPolarAngle, EPS) < c.spherical.phi /\ c.spherical.phi < Min(c.maxPolarAngle, PI - EPS)
    /\ c.minDistance < c.spherical.radius /\ c.spherical.radius < c.maxDistance

\* the camera's azimuth moved by `angle` (less the angle, as rotateLeft subtracts)
AzimuthMovedBy(angle) == oc'.camera.position.th = WrapAngle(oc.camera.position.th - angle)

\* C21 (as claimed): a rotate-drag move of dx, dy pixels adds the azimuth
\* 2*pi*dx*rotateSpeed/clientHeight and the polar angle
\* 2*pi*dy*rotateSpeed/clientHeight to the pending deltas; with damping off
\* and no limit hit the update() that follows moves the camera by exactly
\* that azimuth and leaves the radius and the target.
C21_RotateMovesByDragAngle ==
    [][RotateMove =>
        /\ RotationAdded
        /\ (~oc.enableDamping /\ Unclamped(oc')) =>
                /\ \E angle \in {RotateAngle(oc, DragX)} : IsRotation(angle, DragX) /\ AzimuthMovedBy(angle)
                /\ oc'.camera.position.r = oc.camera.position.r
                /\ oc'.target = oc.target]_vars

\* C21 (amended): the move adds the two angles to the pending deltas; with
\* damping off and no limit hit the update() that follows applies all that is
\* pending: the azimuth moves by the drag angle and the pending azimuth delta,
\* the polar angle by the drag angle and the pending polar delta, the target
\* by the pending pan offset, and the radius stays.  With nothing pending
\* before the move that is exactly the drag angle, and the target stays.
C21_RotateAppliesPending ==
    [][RotateMove =>
        /\ RotationAdded
        /\ (~oc.enableDamping /\ Unclamped(oc')) =>
                /\ \E angle \in {RotateAngle(oc, DragX)} :
                        /\ IsRotation(angle, DragX)
                        /\ AzimuthMovedBy(angle - oc.sphericalDelta.theta)
                        /\ oc.sphericalDelta.theta = 0 => AzimuthMovedBy(angle)
                /\ \E angle \in {RotateAngle(oc, DragY)} :
                        /\ IsRotation(angle, DragY)
                        /\ oc'.camera.position.ph = oc.camera.position.ph - angle + oc.sphericalDelta.phi
                /\ oc'.camera.position.r = oc.camera.position.r
                /\ oc'.target = Vec2(oc.target.x + oc.panOffset.x, oc.target.y + oc.panOffset.y)
                /\ oc.panOffset = Vec2Zero => oc'.target = oc.target]_vars

\* a move of a drag on the wide canvas, damping off, nothing pending: the
\* camera turned by the drag angle, at the distance it had
C21_Witness ==
    /\ h.op = "mousemove" /\ oc.state = ROTATE /\ ~oc.enableDamping /\ Unclamped(oc)
    /\ oc.domElement = WideElement /\ oc.rotateSpeed = 2 * DampDen
    /\ oc.entry.sphericalDelta.theta = -RotateAngle(oc, 1) /\ oc.entry.panOffset = Vec2Zero
    /\ oc.camera.position.th = WrapAngle(-RotateAngle(oc, 1))
    /\ oc.camera.position.r = ZoomNum * Unit

\* a wheel event that onMouseWheel accepts, on a perspective camera
WheelOnPerspective == h'.op = "wheel" /\ WheelAccepted(oc) /\ oc.camera.kind = "perspective"

\* the scale `after` is the scale `before` times n / d
ScaledBy(after, before, n, d) == after.n * before.d * d = after.d * before.n * n

\* what update() makes of the radius r it finds and the pending scale:
\* r * scale, clamped to [minDistance, maxDistance]
Dollied(c, r, scale) == Max(c.minDistance, Min(c.maxDistance, (r * scale.n) \div scale.d))

\* C22: on a perspective camera a wheel event with deltaY > 0 divides the
\* pending scale by 0.95^zoomSpeed and one with deltaY < 0 multiplies it by
\* 0.95^zoomSpeed; the update() that follows multiplies the radius by the
\* pending scale, clamps it to [minDistance, maxDistance], and resets the
\* pending scale to 1, with damping enabled or not.
C22_WheelScalesRadius ==
    [][/\ WheelOnPerspective =>
            /\ h'.arg.deltaY > 0 => ScaledBy(oc'.entry.scale, oc.scale, ZoomDen ^ oc.zoomSpeed, ZoomNum ^ oc.zoomSpeed)
            /\ h'.arg.deltaY < 0 => ScaledBy(oc'.entry.scale, oc.scale, ZoomNum ^ oc.zoomSpeed, ZoomDen ^ oc.zoomSpeed)
            /\ oc'.updates = 1
            /\ Divides(oc'.entry.scale.d, oc.camera.position.r * oc'.entry.scale.n)
            /\ oc'.spherical.radius = Dollied(oc, oc.camera.position.r, oc'.entry.scale)
            /\ oc'.camera.position.r = oc'.spherical.radius
       /\ oc'.updates > 0 => oc'.scale = RatioOne]_vars

\* a wheel event at zoomSpeed 2, damping on: the scale was 0.95^2 and the
\* radius, multiplied by it, was clamped to minDistance
C22_Witness ==
    /\ h.op = "wheel" /\ h.arg.deltaY < 0 /\ oc.zoomSpeed = 2 /\ oc.enableDamping
    /\ oc.entry.scale = Ratio(ZoomNum * ZoomNum, ZoomDen * ZoomDen)
    /\ oc.spherical.radius = MinDistance /\ oc.scale = RatioOne

\* ------------------------------------------------ claims about auto-rotation
\* the azimuth delta that update() applies and decays is what was pending
\* less `angle`: the update() of this step injected `angle`
InjectedBy(angle) ==
    IF oc.enableDamping
    THEN /\ DampDen * oc'.sphericalDelta.theta = (DampDen - oc.dampingFactor) * (oc.sphericalDelta.theta - angle)
         /\ DampDen * WrapAngle(oc'.camera.position.th - oc.camera.position.th) = oc.dampingFactor * (oc.sphericalDelta.theta - angle)
    ELSE oc'.camera.position.th = WrapAngle(oc.camera.position.th + oc.sphericalDelta.theta - angle)

\* a step that is one update() and nothing else: a frame of the engine, or
\* the owner's call
OneUpdate == h'.op \in {"render", "update"} /\ oc'.updates = 1

\* the angle turned in `ticks` at autoRotateSpeed: 2 * pi * autoRotateSpeed / 60
\* per second, which is getAutoRotationAngle() per fixed step of 1/60 s
AngleIn(ticks) == Div(getAutoRotationAngle(oc) * ticks, StepTicks)

\* C23 (as claimed): update() injects an auto-rotation azimuth delta only when
\* autoRotate is true and the state is NONE, and the delta a frame injects is
\* proportional to the time elapsed since the previous frame, at autoRotateSpeed.
C23_AutoRotateByElapsedTime ==
    [][OneUpdate =>
        IF oc.autoRotate /\ oc.state = NONE
        THEN (h'.op = "render" /\ engine.started) => InjectedBy(AngleIn(h'.arg))
        ELSE InjectedBy(0)]_vars

\* C23 (what the code does): every update() injects the same angle,
\* 2 * pi / 60 / 60 * autoRotateSpeed, when autoRotate is true and the state
\* is NONE, whatever time has elapsed, and nothing otherwise.
C23_AutoRotatePerUpdate ==
    [][OneUpdate =>
        IF oc.autoRotate /\ oc.state = NONE
        THEN InjectedBy(getAutoRotationAngle(oc)) /\ getAutoRotationAngle(oc) # 0
        ELSE InjectedBy(0)]_vars

\* ------------------------------------------------ claims about a whole drag
\* the pointer positions a drag is continued to
DragPoints == Pointers \cup {Vec2(0, 0), Vec2(-1, 1)}

\* a mousemove at p, delivered to every listener that is registered
MovedTo(c, p) == onMouseMoveAll(Begin(c), MouseEvent(0, FALSE, p.x, p.y), c.document.mousemove)

\* update() clamped neither angle
AnglesUnclamped(c) ==
    /\ c.minAzimuthAngle < c.spherical.theta /\ c.spherical.theta < c.maxAzimuthAngle
    /\ Max(c.minPolarAngle, EPS) < c.spherical.phi /\ c.spherical.phi < Min(c.maxPolarAngle, PI - EPS)

\* the drag as the next moves find it: the pose, the reference point, what is pending
DragOutcome(c) == <<c.camera.position, c.camera.quaternion, c.target, c.rotateStart, c.sphericalDelta, c.panOffset>>

\* a rotate drag is going on, with damping off
RotateDragUndamped == oc.state = ROTATE /\ oc.enabled /\ oc.enableRotate /\ ~oc.enableDamping /\ oc.document.mousemove > 0

\* moving to q by way of p leaves what moving to q at once leaves
PathIndependent ==
    RotateDragUndamped =>
        \A p, q \in DragPoints :
            \E mid \in {MovedTo(oc, p)} :
                \E via \in {MovedTo(mid, q)}, direct \in {MovedTo(oc, q)} :
                    (AnglesUnclamped(mid) /\ AnglesUnclamped(via) /\ AnglesUnclamped(direct))
                        => DragOutcome(via) = DragOutcome(direct)

PhysicsFrame == h'.op = "render" /\ engine'.physics

\* what Clock.getDelta() returned to the frame just taken
Measured == getDelta(G, h'.arg)

\* the simulated time the frame just taken added, in ticks
Simulated == world'.substeps * StepTicks

\* the bodies are those that world.substeps fixed steps of 1/60 s leave
FixedSubSteps == bodies' = internalSteps(G, world'.substeps).bodies

\* C25 as claimed: every frame advances the physics world by at most 10
\* sub-steps of exactly 1/60 second, and the simulated time added never
\* exceeds the measured delta plus the carried remainder.
C25_SimulatedWithinMeasured ==
    [][PhysicsFrame =>
        /\ FixedSubSteps
        /\ world'.substeps <= MaxSubSteps
        /\ Simulated <= Measured + world.accumulator]_vars

\* C25: every frame advances the physics world by at most 10 sub-steps of
\* exactly 1/60 second. A frame whose measured delta is 0, as the first
\* frame's is, takes one sub-step and leaves the remainder alone; every other
\* frame adds the delta to the remainder and takes the whole steps that fit,
\* 10 at most, so that it never simulates more than the delta plus the
\* remainder, and what it did not simulate is carried: a delta above 10/60
\* second leaves the simulation behind by a step or more.
C25_SubStepsBounded ==
    [][PhysicsFrame =>
        /\ FixedSubSteps
        /\ world'.substeps <= MaxSubSteps
        /\ IF Measured = 0
           THEN world'.substeps = 1 /\ world'.accumulator = world.accumulator
           ELSE /\ Simulated <= Measured + world.accumulator
                /\ world'.accumulator = Measured + world.accumulator - Simulated
                /\ world'.substeps < MaxSubSteps => world'.accumulator < StepTicks
                /\ Measured > MaxSubSteps * StepTicks =>
                        world'.substeps = MaxSubSteps /\ world'.accumulator >= StepTicks]_vars

\* a frame that came more than 10/60 second after the last one: it took 10
\* sub-steps on a world that holds a body and fell behind by two steps
C25_Witness ==
    /\ h.op = "render" /\ engine.physics
    /\ h.arg > MaxSubSteps * StepTicks
    /\ world.substeps = MaxSubSteps
    /\ world.accumulator = h.arg - MaxSubSteps * StepTicks
    /\ world.accumulator >= 2 * StepTicks
    /\ \E i \in 1..Len(bodies) : InWorld(G, i) /\ bodies[i].mass # 0


\* ------------------------------------------------ claims about refused wheel events
\* the wheel event just handled was let past the first test of onMouseWheel
WheelWentIn == oc'.dispatched # << >> \/ oc'.updates > 0

\* C26: a wheel event is accepted only when enabled and enableZoom are true
\* and the state is NONE or ROTATE; a wheel event received in any other case,
\* thus in state DOLLY, PAN or a touch state, dispatches no event, calls no
\* update() and changes neither the scale nor the camera's zoom, nor the state.
C26_WheelRefusedOutsideNoneRotate ==
    [][h'.op = "wheel" =>
        /\ WheelWentIn <=> WheelAccepted(oc)
        /\ WheelAccepted(oc) => oc'.dispatched[1] = "start"
        /\ ~WheelAccepted(oc) =>
                /\ oc'.dispatched = << >>
                /\ oc'.updates = 0
                /\ oc'.scale = oc.scale
                /\ oc'.zoomChanged = oc.zoomChanged
                /\ oc'.camera = oc.camera
                /\ oc'.state = oc.state]_vars

\* a wheel event that came in the middle of a dolly drag, a pan drag or a touch
\* gesture, with enabled and enableZoom true, and was refused
C26_Witness ==
    /\ h.op = "wheel" /\ oc.enabled /\ oc.enableZoom
    /\ oc.state \in {DOLLY, PAN, TOUCH_ROTATE, TOUCH_PAN, TOUCH_DOLLY_PAN, TOUCH_DOLLY_ROTATE}
    /\ oc.dispatched = << >> /\ oc.updates = 0


\* ------------------------------------------------ claims about 'start' and 'end'
RECURSIVE Count(_, _)
Count(seq, x) == IF seq = << >> THEN 0 ELSE (IF Head(seq) = x THEN 1 ELSE 0) + Count(Tail(seq), x)

\* C27: in every trace of events the controller dispatches, every 'end' is
\* preceded by a 'start' that no earlier 'end' has closed, at no point have
\* more 'end' events than 'start' events been dispatched, and one mouseup or
\* touchend produces at most one 'end'.
C27_StartEndPaired ==
    /\ [](oc.heard.orphans = 0)
    /\ [](oc.heard.ends <= oc.heard.starts)
    /\ [][h'.op \in {"mouseup", "touchend"} => Count(oc'.dispatched, "end") <= 1]_vars


\* ------------------------------------------------ claims about repeated addEntity
\* the tracked entities whose current rigid body is b
OwnersOfBody(b) == {e \in Entities : Tracked(e) /\ ent[e].rigidBody = b}

\* the tracked entities whose current mesh is m
OwnersOfMesh(m) == {e \in Entities : Tracked(e) /\ ent[e].mesh = m}

\* C28: after any sequence of addEntity calls, repeated calls with the same
\* entity included, every rigid body in the physics world is the current
\* rigidBody of exactly one tracked entity and every mesh in the scene is the
\* current mesh of exactly one tracked entity, and the world's bodies, the
\* scene's meshes and the tracked list are equal in number.
C28_EveryBodyAndMeshOwned ==
    /\ \A k \in 1..Len(world.bodies) : Cardinality(OwnersOfBody(world.bodies[k])) = 1
    /\ \A k \in 1..Len(scene) : Cardinality(OwnersOfMesh(scene[k])) = 1
    /\ Len(world.bodies) = Len(engine.entities)
    /\ Len(scene) = Len(engine.entities)


\* ------------------------------------------------ claims about two-finger moves
\* the touchmove just handled went into the dolly step of a two-finger gesture
DollyMove ==
    /\ h'.op = "touchmove" /\ oc.enabled /\ oc.enableZoom
    /\ oc.state \in {TOUCH_DOLLY_PAN, TOUCH_DOLLY_ROTATE}

\* C29: whenever a touchmove is processed in state TOUCH_DOLLY_PAN or
\* TOUCH_DOLLY_ROTATE with enableZoom true, the event carries at least two
\* touches and the dolly handler does not fail on a missing second touch, for
\* every sequence of touch events that report the fingers actually down,
\* interleaved with changes of enabled and of the capability flags.
C29_DollyMoveHasTwoTouches ==
    [][DollyMove => (Len(h'.arg.touches) >= 2 /\ ~h'.threw)]_vars


\* ------------------------------------------------ claims about saveState() and reset()
\* C30 as claimed: after reset() the target, the camera's position and the
\* camera's zoom are those saveState() saved and the state is NONE, with
\* damping or without, with pending deltas in the accumulators or without.
C30_ResetRestoresSaved ==
    [][h'.op = "reset" =>
        /\ oc'.target = oc.target0
        /\ oc'.camera.position = oc.position0
        /\ oc'.camera.zoom = oc.zoom0
        /\ oc'.state = NONE]_vars

\* nothing is pending that the update() of reset() would apply
NothingPending(c) ==
    /\ c.sphericalDelta = [theta |-> 0, phi |-> 0]
    /\ c.panOffset = Vec2Zero
    /\ c.scale = RatioOne
    /\ ~(c.autoRotate /\ c.state = NONE)

\* the saved position is one that update() leaves alone: it lies within the
\* limits of the angles and of the distance
SavedWithinLimits(c) ==
    LET s == setFromVector3(c.position0)
    IN  /\ s.theta >= c.minAzimuthAngle /\ s.theta <= c.maxAzimuthAngle
        /\ s.phi >= c.minPolarAngle /\ s.phi <= c.maxPolarAngle
        /\ s.radius >= c.minDistance /\ s.radius <= c.maxDistance
        /\ makeSafe(s) = s

\* the share of a pending delta that one update() applies
AppliedOf(c, delta) == IF c.enableDamping THEN Damped(delta, c.dampingFactor) ELSE delta

\* C30: reset() restores the saved target, position and zoom and then runs
\* one update(); the state is NONE and the zoom the saved one in every case,
\* and the saved values stay saved. When nothing is pending (no rotation or
\* pan left in the accumulators, no auto-rotation due) and the saved position
\* lies within the limits, the target and the camera's position are the saved
\* ones; otherwise the update() applies what is pending and the limits to the
\* restored pose: the target is the saved target moved by the applied share
\* of the pan offset.
C30_ResetRestoresThenUpdates ==
    [][h'.op = "reset" =>
        /\ oc'.state = NONE
        /\ oc'.camera.zoom = oc.zoom0
        /\ oc'.target0 = oc.target0 /\ oc'.position0 = oc.position0 /\ oc'.zoom0 = oc.zoom0
        /\ oc'.updates = 1
        /\ oc'.target = Vec2(oc.target0.x + AppliedOf(oc, oc.panOffset.x), oc.target0.y + AppliedOf(oc, oc.panOffset.y))
        /\ (NothingPending(oc) /\ SavedWithinLimits(oc)) =>
                oc'.target = oc.target0 /\ oc'.camera.position = oc.position0]_vars

\* a reset() that brought the camera back, with damping on, from where input
\* had taken it to a pose that saveState() had saved after the construction
C30_Witness ==
    /\ h.op = "reset" /\ oc.enableDamping
    /\ oc.position0 # Placed(Camera("perspective"), TRUE).position
    /\ oc.entry.lastPosition # oc.position0
    /\ oc.entry.sphericalDelta = [theta |-> 0, phi |-> 0] /\ oc.entry.panOffset = Vec2Zero
    /\ SavedWithinLimits(oc)
    /\ oc.camera.position = oc.position0 /\ oc.target = oc.target0 /\ oc.state = NONE


\* ------------------------------------------------ claims about a failed texture load
\* C31: the promise returned by loadTexture is never rejected. If the image
\* load fails the promise stays pending for ever: the load stays failed, the
\* view adds no entity and never starts the render loop, while the controller
\* goes on handling input events (a right-button mousedown starts a rotate
\* drag and dispatches 'start', a mouseup ends it) and the view its resizes.
C31_FailedLoadStaysPending ==
    /\ [](view.promise # "rejected")
    /\ [](view.texture = "failed" => (view.promise = "pending" /\ EngineIdle))
    /\ [][view.texture = "failed" => view'.texture = "failed"]_vars
    /\ [][view.texture = "failed" =>
            /\ (h'.op = "mousedown" /\ h'.arg.button = 2 /\ oc.enabled /\ oc.enableRotate)
                    => (oc'.state = ROTATE /\ oc'.dispatched = <<"start">>)
            /\ (h'.op = "mouseup" /\ oc.enabled) => (oc'.state = NONE /\ oc'.dispatched[1] = "end")
            /\ h'.op = "resize" => engine'.size = h'.arg]_vars

\* the image load has failed; a mouseup that came after the failure ended a
\* drag, the canvas has been resized, and nothing of the engine has run
C31_Witness ==
    /\ view.texture = "failed" /\ view.promise = "pending"
    /\ h.op = "mouseup" /\ oc.dispatched # << >> /\ oc.document.mouseup > 0
    /\ engine.size.width # DomElement.clientWidth
    /\ EngineIdle

====
